---- MODULE Spec2Model ----
(***************************************************************************)
(* Model of the Bedrock server manager backend                             *)
(* (minecraft_bedrock_installer_nodejs.js): the update orchestrator        *)
(* checkAndInstall with its collaborators (version resolver, backup,       *)
(* fetch/extract, swap, restore, marker file), the process supervisor      *)
(* (startServer / stopServer / isProcessRunning) and the guarded           *)
(* filesystem primitives removeDir and changeOwnership.                    *)
(*                                                                         *)
(* Paths are sequences of one-character strings, so that the code's        *)
(* String.prototype.startsWith and path.resolve are modelled by what they  *)
(* do to the characters of a path.  The POSIX branch of every              *)
(* os.platform() test is the one modelled.                                 *)
(***************************************************************************)
EXTENDS Integers, Sequences, FiniteSets, TLC

(***************************************************************************)
(* Bounds of the model.                                                    *)
(***************************************************************************)
\* number of checkAndInstall invocations explored in one behaviour
MaxRuns == 2
\* longest path handed to removeDir / changeOwnership as a direct call
MaxPathLen == 4
\* number of supervisor calls made through the HTTP API in one behaviour
MaxCalls == 4

(***************************************************************************)
(* Values.                                                                 *)
(***************************************************************************)
\* version strings the resolver can extract with VERSION_REGEX
Versions == {"1", "2"}
\* getStoredVersion's null / serverPID's null
NoVersion == "none"
NoPid == 0

\* characters of the paths given to the direct calls
PathChars == {"/", ".", "s", "x"}

\* the user-data items copyExistingData restores
WORLD_DIRECTORIES == {"worlds"}
CONFIG_FILES == {"server.properties", "permissions.json", "whitelist.json"}
Items == WORLD_DIRECTORIES \cup CONFIG_FILES
\* the directories of an installation into which content packs are installed
PackDirectories == {"behavior_packs", "resource_packs"}
\* the paths of an installation that can hold data of the user
UserPaths == Items \cup PackDirectories

(***************************************************************************)
(* Paths: startsWith, path.join, path.resolve.                             *)
(***************************************************************************)
\* String.prototype.startsWith: a character-wise prefix test
StartsWith(s, p) == Len(p) <= Len(s) /\ SubSeq(s, 1, Len(p)) = p

\* path.join(a, name) for an absolute a and a single name
pathJoin(a, name) == a \o <<"/">> \o name

\* the segments of a path between its separators
RECURSIVE SplitFrom(_, _, _, _)
SplitFrom(p, i, cur, acc) ==
    IF i > Len(p) THEN Append(acc, cur)
    ELSE IF p[i] = "/" THEN SplitFrom(p, i + 1, <<>>, Append(acc, cur))
    ELSE SplitFrom(p, i + 1, Append(cur, p[i]), acc)

\* drop empty and "." segments, let ".." remove the segment before it
RECURSIVE Normalize(_, _, _)
Normalize(segs, i, acc) ==
    IF i > Len(segs) THEN acc
    ELSE IF segs[i] = <<>> \/ segs[i] = <<".">> THEN Normalize(segs, i + 1, acc)
    ELSE IF segs[i] = <<".", ".">>
         THEN Normalize(segs, i + 1,
                        IF acc = <<>> THEN acc ELSE SubSeq(acc, 1, Len(acc) - 1))
    ELSE Normalize(segs, i + 1, Append(acc, segs[i]))

\* path.resolve of an absolute path: its normalized segment list
Resolve(p) == Normalize(SplitFrom(p, 1, <<>>, <<>>), 1, <<>>)

\* the directory a path denotes lies in (or is) the directory root denotes
Inside(p, root) == StartsWith(Resolve(p), Resolve(root))
\* ... and is strictly below it
ProperlyInside(p, root) == Inside(p, root) /\ Resolve(p) # Resolve(root)

\* absolute paths of at most n characters over PathChars
RECURSIVE PathsUpTo(_)
PathsUpTo(n) ==
    IF n = 1 THEN {<<"/">>}
    ELSE LET shorter == PathsUpTo(n - 1)
         IN  shorter \cup {Append(q, c) : q \in {x \in shorter : Len(x) = n - 1},
                                          c \in PathChars}
InputPaths == PathsUpTo(MaxPathLen)

\* the configurations of the three roots that init() can be given: the
\* shape of the built-in defaults (no root's string is a prefix of
\* another's), and one where the server root's string starts with the
\* temp root's string although the directories are disjoint
RootConfigs ==
    { [server |-> <<"/", "s">>, temp |-> <<"/", "t">>, backup |-> <<"/", "b">>],
      [server |-> <<"/", "t", "s">>, temp |-> <<"/", "t">>, backup |-> <<"/", "b">>] }


(***************************************************************************)
(* State.                                                                  *)
(***************************************************************************)
VARIABLES
    SERVER_DIRECTORY,   \* the three roots, set by init() from the configuration
    TEMP_DIRECTORY,
    BACKUP_DIRECTORY,
    WEBHOOK_URL,        \* TRUE when MC_UPDATE_WEBHOOK is set
    serverPID,          \* the tracked pid, NoPid for null
    lastVersionFile,    \* content of last_version.txt, NoVersion when absent
    serverDir,          \* content of SERVER_DIRECTORY, NoDir when absent
    tempDirs,           \* content of TEMP_DIRECTORY/<version>, per version
    backupDirs,         \* the snapshot directories under BACKUP_DIRECTORY, oldest first
    procs,              \* the processes spawned so far, indexed by pid
    run,                \* the activations of checkAndInstall, per caller
    invocations,        \* checkAndInstall invocations made so far
    rmLog,              \* paths on which a recursive delete was executed
    chownLog,           \* paths on which chown -R was executed
    fsCall,             \* a direct call of removeDir / changeOwnership
    api,                \* the supervisor calls made through the HTTP API
    props,              \* server.properties and the last write and read of it
    cfgCall,            \* a call of readGlobalConfig: config.json, argv, result
    sched,              \* the manager's startup and its auto-update scheduler
    http,               \* the exchanges of the routes /api/status and /api/start
    registry,           \* a world's pack registry and the uploads made into it
    world               \* a call of activateWorld

vars == <<SERVER_DIRECTORY, TEMP_DIRECTORY, BACKUP_DIRECTORY, WEBHOOK_URL, serverPID,
          lastVersionFile, serverDir, tempDirs, backupDirs, procs, run, invocations,
          rmLog, chownLog, fsCall, api, props, cfgCall, sched, http, registry, world>>

mgmtVars == <<props, cfgCall, sched, http, registry, world>>
rootVars == <<SERVER_DIRECTORY, TEMP_DIRECTORY, BACKUP_DIRECTORY, WEBHOOK_URL>>
diskVars == <<lastVersionFile, serverDir, tempDirs, backupDirs>>
procVars == <<serverPID, procs>>
logVars  == <<rmLog, chownLog>>

\* the callers of checkAndInstall; the sequential specification uses the first
Callers == {1, 2}
SeqCallers == {1}

(***************************************************************************)
(* Directory contents.                                                     *)
(***************************************************************************)
\* a directory: the release whose files it holds, whether the server
\* executable is among them, where each user-data item comes from
\* ("none": absent); a downloaded archive file lying in it is not tracked
NoData == [i \in UserPaths |-> "none"]
EmptyDir == [rel |-> NoVersion, exe |-> FALSE, data |-> NoData]
\* the value that stands for a directory that does not exist
NoDir == [rel |-> "absent", exe |-> FALSE, data |-> NoData]

\* what unzip leaves for the archive of version v: the executable and the
\* release's own default configuration files
ExtractedRelease(v) ==
    [rel |-> v, exe |-> TRUE,
     data |-> [i \in UserPaths |->
                  IF i \in {"server.properties", "permissions.json"} \cup PackDirectories
                  THEN "release" ELSE "none"]]

\* an extraction that stopped part-way: files of v, no executable
PartialRelease(v) == [rel |-> v, exe |-> FALSE, data |-> NoData]

\* an installation in use: release v with the user's worlds and settings
UserInstall(v) ==
    [rel |-> v, exe |-> TRUE,
     data |-> [i \in UserPaths |-> IF i = "whitelist.json" THEN "none" ELSE "user"]]

\* a restore that copies every configured item whether or not the snapshot
\* holds it
copyExistingDataUnconditional(backup, newInstall) ==
    [newInstall EXCEPT !.data = backup.data]

\* copyExistingData: every configured item present in the snapshot replaces
\* the one in the new install; an absent one is skipped with a warning
copyExistingData(backup, newInstall) ==
    [newInstall EXCEPT !.data =
        [i \in UserPaths |-> IF i \in Items /\ backup.data[i] # "none"
                             THEN backup.data[i]
                             ELSE newInstall.data[i]]]

(***************************************************************************)
(* removeDir and changeOwnership.                                          *)
(***************************************************************************)
validBasePathsForRemove ==
    {b \in {SERVER_DIRECTORY, TEMP_DIRECTORY, BACKUP_DIRECTORY} : b # <<>>}

isPathValidForRemove(dirPath) ==
    \E base \in validBasePathsForRemove :
        StartsWith(dirPath, base) /\ Resolve(dirPath) # Resolve(base)

\* removeDir(dirPath): "skipped" when the path does not exist, "rejected"
\* when the guard throws, otherwise the recursive delete is executed and
\* either removes the tree ("removed") or both fs.promises.rm and the
\* rm -rf fallback fail ("failed", the promise rejects)
RemoveDirOutcome(dirPath, exists, rmOk) ==
    IF ~exists THEN "skipped"
    ELSE IF ~isPathValidForRemove(dirPath) /\ validBasePathsForRemove # {}
         THEN "rejected"
    ELSE IF rmOk THEN "removed" ELSE "failed"

validBasePaths == {b \in {SERVER_DIRECTORY, BACKUP_DIRECTORY} : b # <<>>}

\* changeOwnership(dirPath, user, group): "rejected" when the guard throws,
\* otherwise chown -R is spawned and exits 0 ("changed") or not ("failed")
ChangeOwnershipOutcome(dirPath, chownOk) ==
    IF ~\E base \in validBasePaths : StartsWith(dirPath, base) THEN "rejected"
    ELSE IF chownOk THEN "changed" ELSE "failed"

RmExecuted(outcome) == outcome \in {"removed", "failed"}
ChownExecuted(outcome) == outcome \in {"changed", "failed"}

(***************************************************************************)
(* The process supervisor.                                                 *)
(***************************************************************************)
\* process.kill(pid, 0) succeeds
Alive(pid) == pid \in 1..Len(procs) /\ procs[pid].alive

\* fs.existsSync(path.join(SERVER_DIRECTORY, SERVER_EXE_NAME))
ServerExeExists == serverDir # NoDir /\ serverDir.exe

\* stopServer that neither signals nor clears the tracked pid
StopServerLeavesPid == [pid |-> serverPID, procs |-> procs, signalled |-> FALSE]

\* stopServer that keeps the tracked pid when the signal cannot be delivered
StopServerKeepsUnsignalled ==
    IF serverPID = NoPid THEN [pid |-> NoPid, procs |-> procs, signalled |-> FALSE]
    ELSE IF Alive(serverPID)
    THEN [pid |-> NoPid, procs |-> [procs EXCEPT ![serverPID].signalled = TRUE],
          signalled |-> TRUE]
    ELSE [pid |-> serverPID, procs |-> procs, signalled |-> TRUE]

\* stopServer: nothing without a tracked pid; otherwise SIGTERM is sent
\* (process.kill throws when the process is gone, which is caught) and the
\* tracked pid is cleared in the finally block
StopServerEffect ==
    IF serverPID = NoPid THEN [pid |-> NoPid, procs |-> procs, signalled |-> FALSE]
    ELSE [pid |-> NoPid,
          procs |-> IF Alive(serverPID)
                    THEN [procs EXCEPT ![serverPID].signalled = TRUE]
                    ELSE procs,
          signalled |-> TRUE]

\* what process.kill(pid, 0) can do: nothing is probed without a tracked
\* pid; a live process answers, or the probe is refused (EPERM); a process
\* that is gone gives ESRCH
ProbeOutcomes(pid) ==
    IF pid = NoPid THEN {"none"}
    ELSE IF Alive(pid) THEN {"ok", "EPERM"}
    ELSE {"ESRCH"}

\* isProcessRunning that keeps the tracked pid when the probe fails
isProcessRunningKeepsPid(probe) ==
    [result |-> serverPID # NoPid /\ probe = "ok", pid |-> serverPID]

\* isProcessRunning: false without a tracked pid; true when the probe
\* succeeds; on any probe error the tracked pid is cleared and it is false
isProcessRunning(probe) ==
    IF serverPID = NoPid THEN [result |-> FALSE, pid |-> NoPid]
    ELSE IF probe = "ok" THEN [result |-> TRUE, pid |-> serverPID]
    ELSE [result |-> FALSE, pid |-> NoPid]

\* startServer that spawns without consulting the tracked pid
StartServerAlwaysSpawns(probe, spawnOutcome) ==
    IF ServerExeExists /\ spawnOutcome = "pid"
    THEN [pid |-> Len(procs) + 1,
          procs |-> Append(procs, [alive |-> TRUE, rel |-> serverDir.rel,
                                   signalled |-> FALSE]),
          raised |-> FALSE, spawned |-> TRUE]
    ELSE [pid |-> NoPid, procs |-> procs, raised |-> FALSE, spawned |-> FALSE]

\* startServer; probe is what the liveness probe of a tracked pid gives,
\* spawnOutcome is what child_process.spawn does when it is reached: "pid"
\* (a child with a pid), "nopid" (a child object without pid, its error
\* event follows) or "throw" (spawn throws)
StartServerEffect(probe, spawnOutcome) ==
    IF serverPID # NoPid /\ isProcessRunning(probe).result
    THEN [pid |-> serverPID, procs |-> procs, raised |-> FALSE, spawned |-> FALSE]
    ELSE IF ~ServerExeExists
    THEN [pid |-> NoPid, procs |-> procs, raised |-> FALSE, spawned |-> FALSE]
    ELSE IF spawnOutcome = "pid"
    THEN [pid |-> Len(procs) + 1,
          procs |-> Append(procs, [alive |-> TRUE, rel |-> serverDir.rel,
                                   signalled |-> FALSE]),
          raised |-> FALSE, spawned |-> TRUE]
    ELSE [pid |-> NoPid, procs |-> procs, raised |-> (spawnOutcome = "throw"),
          spawned |-> FALSE]

SpawnOutcomes == {"pid", "nopid", "throw"}

\* a process that has exited
Exited == [alive |-> FALSE, rel |-> NoVersion, signalled |-> FALSE]

\* a child process ends; its exit event is not yet delivered
ProcessDies(p) ==
    /\ Alive(p)
    /\ procs' = [procs EXCEPT ![p].alive = FALSE]
    /\ UNCHANGED <<rootVars, diskVars, serverPID, run, invocations, logVars, fsCall, api, mgmtVars>>

\* an exit handler that clears the tracked pid whichever child has exited
ProcessExitClearsAnyPid(p) ==
    /\ p \in 1..Len(procs) /\ procs[p] # Exited
    /\ procs' = [procs EXCEPT ![p] = Exited]
    /\ serverPID' = NoPid
    /\ UNCHANGED <<rootVars, diskVars, run, invocations, logVars, fsCall, api, mgmtVars>>

\* the exit event of a child: the tracked pid is cleared when it is the child's
ProcessExit(p) ==
    /\ p \in 1..Len(procs) /\ procs[p] # Exited
    /\ procs' = [procs EXCEPT ![p] = Exited]
    /\ serverPID' = IF serverPID = p THEN NoPid ELSE serverPID
    /\ UNCHANGED <<rootVars, diskVars, run, invocations, logVars, fsCall, api, mgmtVars>>

(***************************************************************************)
(* The version marker and the resolver.                                    *)
(***************************************************************************)
\* what the download-links request can come back with: a transport error,
\* a non-2xx status, a body that is not JSON, a body without a link for
\* the platform, a link whose file name VERSION_REGEX does not match, or a
\* link that names a version
Responses == {"transport_error", "bad_status", "bad_json", "no_link", "no_version_match"}
                 \cup Versions

\* getLatestVersion without the test of the VERSION_REGEX match: a link
\* whose file name does not match is resolved as if it named a version
getLatestVersionUnmatched(resp) ==
    IF resp \in {"transport_error", "bad_status", "bad_json"}
    THEN [kind |-> "reject", latestVersion |-> NoVersion, error |-> resp]
    ELSE IF resp = "no_link"
    THEN [kind |-> "null", latestVersion |-> NoVersion, error |-> "none"]
    ELSE [kind |-> "info", latestVersion |-> IF resp \in Versions THEN resp ELSE "1",
          error |-> "none"]

\* getLatestVersion: rejects, resolves null, or resolves the version info
getLatestVersion(resp) ==
    IF resp \in {"transport_error", "bad_status", "bad_json"}
    THEN [kind |-> "reject", latestVersion |-> NoVersion, error |-> resp]
    ELSE IF resp \in {"no_link", "no_version_match"}
    THEN [kind |-> "null", latestVersion |-> NoVersion, error |-> "none"]
    ELSE [kind |-> "info", latestVersion |-> resp, error |-> "none"]

\* getStoredVersion: the marker's content; null when the file is absent or
\* reading it throws
getStoredVersion(readOk) ==
    IF lastVersionFile # NoVersion /\ readOk THEN lastVersionFile ELSE NoVersion

\* storeLatestVersion: writes the marker; a write error is logged only
storeLatestVersion(version, writeOk) ==
    IF writeOk THEN version ELSE lastVersionFile

\* the up-to-date test with its comparison inverted
UpToDateInverted(lastVersion, latestVersion) ==
    lastVersion # NoVersion /\ latestVersion # lastVersion

\* the test `lastVersion && latestVersion === lastVersion`
UpToDate(lastVersion, latestVersion) ==
    lastVersion # NoVersion /\ latestVersion = lastVersion

(***************************************************************************)
(* checkAndInstall.                                                        *)
(***************************************************************************)
NoResult == [kind |-> "none", success |-> FALSE, text |-> "", detail |-> ""]
\* a returned {success, message}; the message is text followed by detail
Value(success, text, detail) ==
    [kind |-> "value", success |-> success, text |-> text, detail |-> detail]
\* the promise rejects: the error reaches the caller
Raised(error) ==
    [kind |-> "raised", success |-> FALSE, text |-> "", detail |-> error]

IdleRun ==
    [pc |-> "idle", latestVersion |-> NoVersion, lastVersion |-> NoVersion,
     bk |-> 0, backupDir |-> 0, pending |-> "none", error |-> "none",
     result |-> NoResult, handler |-> "none",
     \* history of the activation: the resolver's response, the steps
     \* attempted in order, whether an external operation failed, and the
     \* marker and the active directory as they were at the invocation
     response |-> "none", ops |-> <<>>, extFail |-> FALSE,
     marker0 |-> NoVersion, dir0 |-> NoDir,
     \* who invoked it: "api" (POST /api/update) or "tick" (the callback of
     \* the scheduler's setInterval)
     source |-> "none"]

\* the name of the i-th snapshot directory (timestamps only grow)
Stamp(i) == [k \in 1..i |-> "a"]
BackupPath(i) == pathJoin(BACKUP_DIRECTORY, Stamp(i))
TempInstallPath(v) == pathJoin(TEMP_DIRECTORY, <<v>>)

Did(rec, op) == [rec EXCEPT !.ops = Append(@, op)]
Goto(rec, pc) == [rec EXCEPT !.pc = pc]
\* an exception inside the try block: control goes to the catch clause
Raise(rec, err, external) ==
    [rec EXCEPT !.pc = "catch", !.error = err, !.extFail = @ \/ external]
Finish(rec, result) == [rec EXCEPT !.pc = "done", !.result = result]

\* checkAndInstall is invoked; nothing in it or in its callers looks at
\* the activations already under way
InvokeFrom(r, source) ==
    /\ run[r].pc = "idle"
    /\ invocations < MaxRuns
    /\ invocations' = invocations + 1
    /\ run' = [run EXCEPT ![r] = [IdleRun EXCEPT !.pc = "getLatestVersion",
                                                 !.marker0 = lastVersionFile,
                                                 !.dir0 = serverDir,
                                                 !.source = source]]
    /\ UNCHANGED <<rootVars, diskVars, procVars, logVars, fsCall, api, mgmtVars>>

\* POST /api/update invokes checkAndInstall
Invoke(r) == InvokeFrom(r, "api")

\* the interval timer of startAutoUpdateScheduler fires: its callback
\* invokes checkAndInstall
Tick(r) == InvokeFrom(r, "tick")

\* `await getLatestVersion()` outside the try block, the null test, the
\* marker read and the up-to-date test
CheckVersion(r) ==
    /\ run[r].pc = "getLatestVersion"
    /\ \E resp \in Responses, readOk \in BOOLEAN :
         LET versionInfo == getLatestVersion(resp)
             lastVersion == getStoredVersion(readOk)
             got == [run[r] EXCEPT !.response = resp]
             seen == [got EXCEPT !.latestVersion = versionInfo.latestVersion,
                                 !.lastVersion = lastVersion]
         IN  run' = [run EXCEPT ![r] =
                 IF versionInfo.kind = "reject"
                 THEN Finish(got, Raised(versionInfo.error))
                 ELSE IF versionInfo.kind = "null"
                 THEN Finish(got, Value(FALSE,
                          "Failed to retrieve latest version information from API.", ""))
                 ELSE IF UpToDate(lastVersion, versionInfo.latestVersion)
                 THEN Finish(seen, Value(TRUE, "Server is already up to date.", ""))
                 ELSE Goto(seen, "webhook_pre")]
    /\ UNCHANGED <<rootVars, diskVars, procVars, invocations, logVars, fsCall, api, mgmtVars>>

\* a notification whose failure is not caught where it is sent
AfterWebhookUncaught(rec, delivered, next) ==
    IF delivered THEN Goto(rec, next) ELSE Raise(rec, "webhook", TRUE)

\* `try { await sendWebhookNotification(...) } catch (error) { log(...) }`:
\* delivered or not, the run goes on to its next step
AfterWebhook(rec, delivered, next) == Goto(rec, next)

\* the pre-update notification: sent only with a webhook configured; its
\* failure is caught and logged
WebhookPre(r) ==
    /\ run[r].pc = "webhook_pre"
    /\ \E delivered \in BOOLEAN :
         run' = [run EXCEPT ![r] =
                    IF WEBHOOK_URL
                    THEN AfterWebhook(Did(run[r], "webhook_pre"), delivered, "stopServer")
                    ELSE Goto(run[r], "stopServer")]
    /\ UNCHANGED <<rootVars, diskVars, procVars, invocations, logVars, fsCall, api, mgmtVars>>

StopServerStep(r) ==
    /\ run[r].pc = "stopServer"
    /\ LET e == StopServerEffect
       IN  /\ serverPID' = e.pid
           /\ procs' = e.procs
    /\ run' = [run EXCEPT ![r] = Goto(Did(run[r], "stop"), "backupServer")]
    /\ UNCHANGED <<rootVars, diskVars, invocations, logVars, fsCall, api, mgmtVars>>

\* backupServer's test with the negation of existsSync lost
BackupNeededInverted == SERVER_DIRECTORY # <<>> /\ serverDir = NoDir

\* backupServer's test `!SERVER_DIRECTORY || !fs.existsSync(SERVER_DIRECTORY)`
\* is false: there is something to back up
BackupNeeded == SERVER_DIRECTORY # <<>> /\ serverDir # NoDir

\* backupServer up to its first real wait: the existence test, mkdirSync
\* of the snapshot directory (outside the try block) and copyDir
BackupCopy(r) ==
    /\ run[r].pc = "backupServer"
    /\ IF ~BackupNeeded
       THEN /\ run' = [run EXCEPT ![r] = Goto(Did(run[r], "nobackup"), "fetch")]
            /\ UNCHANGED backupDirs
       ELSE \E mkdirOk \in BOOLEAN, copyOk \in BOOLEAN :
              LET me == Did(run[r], "backup")
                  bk == Len(backupDirs) + 1
              IN  IF ~mkdirOk
                  THEN /\ run' = [run EXCEPT ![r] = Raise(me, "mkdir", TRUE)]
                       /\ UNCHANGED backupDirs
                  ELSE IF copyOk
                  THEN /\ backupDirs' = Append(backupDirs,
                              [content |-> serverDir, state |-> "copied"])
                       /\ run' = [run EXCEPT ![r] =
                              Goto([me EXCEPT !.bk = bk], "bk_chown")]
                  ELSE /\ backupDirs' = Append(backupDirs,
                              [content |-> EmptyDir, state |-> "leftover"])
                       /\ run' = [run EXCEPT ![r] =
                              Goto([me EXCEPT !.bk = bk, !.pending = "copy",
                                              !.extFail = TRUE], "bk_cleanup")]
    /\ UNCHANGED <<rootVars, lastVersionFile, serverDir, tempDirs, procVars,
                   invocations, logVars, fsCall, api, mgmtVars>>

\* backupServer: changeOwnership(backupDir), then `return backupDir`
BackupChown(r) ==
    /\ run[r].pc = "bk_chown"
    /\ \E chownOk \in BOOLEAN :
         LET bk == run[r].bk
             outcome == ChangeOwnershipOutcome(BackupPath(bk), chownOk)
         IN  /\ chownLog' = IF ChownExecuted(outcome)
                            THEN chownLog \cup {BackupPath(bk)} ELSE chownLog
             /\ IF outcome = "changed"
                THEN /\ backupDirs' = [backupDirs EXCEPT ![bk].state = "complete"]
                     /\ run' = [run EXCEPT ![r] =
                            Goto([run[r] EXCEPT !.backupDir = bk], "fetch")]
                ELSE /\ backupDirs' = [backupDirs EXCEPT ![bk] =
                                        [content |-> EmptyDir, state |-> "leftover"]]
                     /\ run' = [run EXCEPT ![r] =
                            Goto([run[r] EXCEPT
                                    !.pending = IF outcome = "rejected"
                                                THEN "Invalid path for changeOwnership"
                                                ELSE "chown",
                                    !.extFail = @ \/ outcome = "failed"],
                                 "bk_cleanup")]
    /\ UNCHANGED <<rootVars, lastVersionFile, serverDir, tempDirs, procVars,
                   invocations, rmLog, fsCall, api, mgmtVars>>

\* a catch clause of backupServer that removes the whole backup root
SnapshotsAllRemoved(bk, outcome) ==
    [i \in 1..Len(backupDirs) |-> [content |-> NoDir, state |-> "removed"]]

\* a catch clause of backupServer that rethrows without removing the snapshot
SnapshotKeptAfterCleanup(bk, outcome) == backupDirs

\* the snapshot directories after the catch clause's removeDir(backupDir)
SnapshotAfterCleanup(bk, outcome) ==
    IF outcome = "removed"
    THEN [backupDirs EXCEPT ![bk] = [content |-> NoDir, state |-> "removed"]]
    ELSE backupDirs

\* backupServer's catch clause: removeDir(backupDir), then rethrow
BackupCleanup(r) ==
    /\ run[r].pc = "bk_cleanup"
    /\ \E rmOk \in BOOLEAN :
         LET bk == run[r].bk
             outcome == RemoveDirOutcome(BackupPath(bk), TRUE, rmOk)
         IN  /\ rmLog' = IF RmExecuted(outcome)
                         THEN rmLog \cup {BackupPath(bk)} ELSE rmLog
             /\ backupDirs' = SnapshotAfterCleanup(bk, outcome)
             /\ run' = [run EXCEPT ![r] =
                    IF outcome = "removed" THEN Raise(run[r], run[r].pending, FALSE)
                    ELSE IF outcome = "failed" THEN Raise(run[r], "rm", TRUE)
                    ELSE Raise(run[r], "Invalid path for removeDir", FALSE)]
    /\ UNCHANGED <<rootVars, lastVersionFile, serverDir, tempDirs, procVars,
                   invocations, chownLog, fsCall, api, mgmtVars>>

\* the existence test made on a path that never exists
TempInstallNeverExists(v) == FALSE

\* fs.existsSync(tempInstallPath)
TempInstallExists(v) == tempDirs[v] # NoDir

\* `if (fs.existsSync(tempInstallPath))`: skip download and extraction,
\* else mkdirSync(tempInstallPath)
FetchDecision(r) ==
    /\ run[r].pc = "fetch"
    /\ LET v == run[r].latestVersion
       IN  IF TempInstallExists(v)
           THEN /\ run' = [run EXCEPT ![r] = Goto(Did(run[r], "skip_fetch"), "removeDir")]
                /\ UNCHANGED tempDirs
           ELSE \E mkdirOk \in BOOLEAN :
                  IF mkdirOk
                  THEN /\ tempDirs' = [tempDirs EXCEPT ![v] = EmptyDir]
                       /\ run' = [run EXCEPT ![r] = Goto(Did(run[r], "mkdir"), "download")]
                  ELSE /\ UNCHANGED tempDirs
                       /\ run' = [run EXCEPT ![r] = Raise(Did(run[r], "mkdir"), "mkdir", TRUE)]
    /\ UNCHANGED <<rootVars, lastVersionFile, serverDir, backupDirs, procVars,
                   invocations, logVars, fsCall, api, mgmtVars>>

\* downloadFile: resolves when the archive file is written into the temp
\* directory; rejects on a non-2xx status or on an error of the response
\* or of the file stream while the body is piped.  The request returned by
\* protocol.get has no 'error' listener, and the file stream has none
\* before the response arrives: such an error ("unhandled") is thrown as an
\* uncaught exception: the promise is never settled and the manager's
\* process ends, with every activation in it
Download(r) ==
    /\ run[r].pc = "download"
    /\ LET v == run[r].latestVersion
           me == Did(run[r], "download")
       IN  \E out \in {"ok", "status", "error", "unhandled"} :
             \* the archive can only be written into a directory that exists
             /\ out = "ok" => TempInstallExists(v)
             /\ UNCHANGED tempDirs
             /\ run' = IF out = "unhandled"
                       THEN [q \in Callers |->
                               Goto(IF q = r THEN [me EXCEPT !.extFail = TRUE]
                                    ELSE run[q], "crashed")]
                       ELSE [run EXCEPT ![r] =
                               IF out = "ok" THEN Goto(me, "extract")
                               ELSE Raise(me, "download", TRUE)]
    /\ UNCHANGED <<rootVars, lastVersionFile, serverDir, backupDirs, procVars,
                   invocations, logVars, fsCall, api, mgmtVars>>

\* extractFiles, then fs.unlinkSync(downloadPath)
Extract(r) ==
    /\ run[r].pc = "extract"
    /\ LET v == run[r].latestVersion
           me == Did(run[r], "extract")
       IN  \E out \in {"ok", "unlink_fails", "fails"} :
             \* unzip finds no archive when the directory is gone
             /\ out # "fails" => TempInstallExists(v)
             /\ tempDirs' = [tempDirs EXCEPT ![v] =
                                IF ~TempInstallExists(v) THEN NoDir
                                ELSE IF out = "fails" THEN PartialRelease(v)
                                ELSE ExtractedRelease(v)]
             /\ run' = [run EXCEPT ![r] =
                    CASE out = "ok" -> Goto(me, "removeDir")
                      [] out = "unlink_fails" -> Raise(me, "unlink", TRUE)
                      [] out = "fails" -> Raise(me, "extract", TRUE)]
    /\ UNCHANGED <<rootVars, lastVersionFile, serverDir, backupDirs, procVars,
                   invocations, logVars, fsCall, api, mgmtVars>>

\* `if (fs.existsSync(SERVER_DIRECTORY)) await removeDir(SERVER_DIRECTORY)`
SwapRemove(r) ==
    /\ run[r].pc = "removeDir"
    /\ IF serverDir = NoDir
       THEN /\ run' = [run EXCEPT ![r] = Goto(run[r], "rename")]
            /\ UNCHANGED <<serverDir, rmLog, mgmtVars>>
       ELSE \E rmOk \in BOOLEAN :
              LET outcome == RemoveDirOutcome(SERVER_DIRECTORY, TRUE, rmOk)
                  me == Did(run[r], "remove")
              IN  /\ rmLog' = IF RmExecuted(outcome)
                              THEN rmLog \cup {SERVER_DIRECTORY} ELSE rmLog
                  /\ serverDir' = IF outcome = "removed" THEN NoDir ELSE serverDir
                  /\ run' = [run EXCEPT ![r] =
                         IF outcome = "removed" THEN Goto(me, "rename")
                         ELSE IF outcome = "failed" THEN Raise(me, "rm", TRUE)
                         ELSE Raise(me, "Invalid path for removeDir", FALSE)]
    /\ UNCHANGED <<rootVars, lastVersionFile, tempDirs, backupDirs, procVars,
                   invocations, chownLog, fsCall, api, mgmtVars>>

\* fs.renameSync can only succeed with the source present and the target
\* absent or an empty directory
RenamePossible(v) == tempDirs[v] # NoDir /\ serverDir \in {NoDir, EmptyDir}

\* fs.renameSync(tempInstallPath, SERVER_DIRECTORY), copyExistingData when
\* a snapshot was returned, storeLatestVersion: no wait separates them
SwapAndRestore(r) ==
    /\ run[r].pc = "rename"
    /\ LET v == run[r].latestVersion
           me == Did(run[r], "rename")
       IN  \E renameOk \in BOOLEAN, restoreOk \in BOOLEAN, writeOk \in BOOLEAN :
             IF ~(renameOk /\ RenamePossible(v))
             THEN /\ run' = [run EXCEPT ![r] = Raise(me, "rename", RenamePossible(v))]
                  /\ UNCHANGED <<serverDir, tempDirs, lastVersionFile, mgmtVars>>
             ELSE /\ tempDirs' = [tempDirs EXCEPT ![v] = NoDir]
                  /\ IF run[r].backupDir # 0 /\ ~restoreOk
                     THEN /\ serverDir' = tempDirs[v]
                          /\ UNCHANGED lastVersionFile
                          /\ run' = [run EXCEPT ![r] =
                                 Raise(Did(me, "restore"), "restore", TRUE)]
                     ELSE /\ serverDir' =
                                 IF run[r].backupDir # 0
                                 THEN copyExistingData(
                                          backupDirs[run[r].backupDir].content, tempDirs[v])
                                 ELSE tempDirs[v]
                          /\ lastVersionFile' = storeLatestVersion(v, writeOk)
                          /\ run' = [run EXCEPT ![r] =
                                 Goto([Did(IF run[r].backupDir # 0
                                           THEN Did(me, "restore") ELSE me, "store")
                                       EXCEPT !.extFail = @ \/ ~writeOk], "chown")]
    /\ UNCHANGED <<rootVars, backupDirs, procVars, invocations, logVars, fsCall, api, mgmtVars>>

\* changeOwnership(SERVER_DIRECTORY, MC_USER, MC_GROUP)
ChownServer(r) ==
    /\ run[r].pc = "chown"
    /\ \E chownOk \in BOOLEAN :
         LET outcome == ChangeOwnershipOutcome(SERVER_DIRECTORY, chownOk)
             me == Did(run[r], "chown")
         IN  /\ chownLog' = IF ChownExecuted(outcome)
                            THEN chownLog \cup {SERVER_DIRECTORY} ELSE chownLog
             /\ run' = [run EXCEPT ![r] =
                    IF outcome = "changed" THEN Goto(me, "webhook_post")
                    ELSE IF outcome = "failed" THEN Raise(me, "chown", TRUE)
                    ELSE Raise(me, "Invalid path for changeOwnership", FALSE)]
    /\ UNCHANGED <<rootVars, diskVars, procVars, invocations, rmLog, fsCall, api, mgmtVars>>

\* the post-update notification
WebhookPost(r) ==
    /\ run[r].pc = "webhook_post"
    /\ \E delivered \in BOOLEAN :
         run' = [run EXCEPT ![r] =
                    IF WEBHOOK_URL
                    THEN AfterWebhook(Did(run[r], "webhook_post"), delivered, "startServer")
                    ELSE Goto(run[r], "startServer")]
    /\ UNCHANGED <<rootVars, diskVars, procVars, invocations, logVars, fsCall, api, mgmtVars>>

\* `await startServer()` at the end of the try block, then the success result
StartStep(r) ==
    /\ run[r].pc = "startServer"
    /\ \E probe \in ProbeOutcomes(serverPID), spawnOutcome \in SpawnOutcomes :
         LET e == StartServerEffect(probe, spawnOutcome)
             me == Did(run[r], "start")
         IN  /\ serverPID' = e.pid
             /\ procs' = e.procs
             /\ run' = [run EXCEPT ![r] =
                    IF e.raised THEN Raise(me, "spawn", TRUE)
                    ELSE Finish(me, Value(TRUE, "Server updated to version ",
                                          run[r].latestVersion))]
    /\ UNCHANGED <<rootVars, diskVars, invocations, logVars, fsCall, api, mgmtVars>>

\* a catch clause whose startServer call is not wrapped in a try/catch
CatchResultRethrows(error, startRaised) ==
    IF startRaised THEN Raised("spawn")
    ELSE Value(FALSE, "Error during installation: ", error)

\* what the catch clause hands back: the failure result that carries
\* error.message, also when its own startServer call threw
CatchResult(error, startRaised) ==
    Value(FALSE, "Error during installation: ", error)

\* the catch clause: startServer inside its own try/catch, then the result
CatchHandler(r) ==
    /\ run[r].pc = "catch"
    /\ \E probe \in ProbeOutcomes(serverPID), spawnOutcome \in SpawnOutcomes :
         LET e == StartServerEffect(probe, spawnOutcome)
         IN  /\ serverPID' = e.pid
             /\ procs' = e.procs
             /\ run' = [run EXCEPT ![r] =
                    Finish([run[r] EXCEPT !.handler = IF e.raised THEN "start_raised"
                                                      ELSE "start_returned"],
                           CatchResult(run[r].error, e.raised))]
    /\ UNCHANGED <<rootVars, diskVars, invocations, logVars, fsCall, api, mgmtVars>>

\* the caller takes the result; the activation is over
Return(r) ==
    /\ run[r].pc = "done"
    /\ run' = [run EXCEPT ![r] = IdleRun]
    /\ UNCHANGED <<rootVars, diskVars, procVars, invocations, logVars, fsCall, api, mgmtVars>>

checkAndInstall(r) ==
    \/ Invoke(r)
    \/ CheckVersion(r)
    \/ WebhookPre(r)
    \/ StopServerStep(r)
    \/ BackupCopy(r)
    \/ BackupChown(r)
    \/ BackupCleanup(r)
    \/ FetchDecision(r)
    \/ Download(r)
    \/ Extract(r)
    \/ SwapRemove(r)
    \/ SwapAndRestore(r)
    \/ ChownServer(r)
    \/ WebhookPost(r)
    \/ StartStep(r)
    \/ CatchHandler(r)
    \/ Return(r)

(***************************************************************************)
(* Direct calls of the exported removeDir and changeOwnership.             *)
(***************************************************************************)
NoCall == [op |-> "none", path |-> <<>>, exists |-> FALSE, outcome |-> "none"]

DirectRemoveDir ==
    /\ fsCall.op = "removeDir" /\ fsCall.outcome = "none"
    /\ \E rmOk \in BOOLEAN :
         LET outcome == RemoveDirOutcome(fsCall.path, fsCall.exists, rmOk)
         IN  /\ fsCall' = [fsCall EXCEPT !.outcome = outcome]
             /\ rmLog' = IF RmExecuted(outcome) THEN rmLog \cup {fsCall.path} ELSE rmLog
    /\ UNCHANGED <<rootVars, diskVars, procVars, run, invocations, chownLog, api, mgmtVars>>

DirectChangeOwnership ==
    /\ fsCall.op = "changeOwnership" /\ fsCall.outcome = "none"
    /\ \E chownOk \in BOOLEAN :
         LET outcome == ChangeOwnershipOutcome(fsCall.path, chownOk)
         IN  /\ fsCall' = [fsCall EXCEPT !.outcome = outcome]
             /\ chownLog' = IF ChownExecuted(outcome)
                            THEN chownLog \cup {fsCall.path} ELSE chownLog
    /\ UNCHANGED <<rootVars, diskVars, procVars, run, invocations, rmLog, api, mgmtVars>>

(***************************************************************************)
(* The supervisor calls of the HTTP API: POST /api/start, /api/stop,       *)
(* /api/restart and GET /api/status.  startServer, stopServer and          *)
(* isProcessRunning run without a wait in which another handler could      *)
(* run; restartServer waits between its stopServer and its startServer.    *)
(***************************************************************************)
\* the last completed call: the outcomes of its probe and its spawn, what
\* it returned and whether it raised
NoApiCall == [op |-> "none", probe |-> "none", spawn |-> "none",
              result |-> FALSE, raised |-> FALSE]
\* the activation of restartServer: the tracked pid and the number of
\* processes spawned when it began, and the steps it has taken
IdleRestart == [pc |-> "idle", pid0 |-> NoPid, nprocs0 |-> 0, ops |-> <<>>,
                spawned |-> FALSE, raised |-> FALSE]
NoApi == [calls |-> 0, last |-> NoApiCall, restart |-> IdleRestart]

\* POST /api/start: startServer()
ApiStart ==
    /\ api.calls < MaxCalls
    /\ \E probe \in ProbeOutcomes(serverPID), spawnOutcome \in SpawnOutcomes :
         LET e == StartServerEffect(probe, spawnOutcome)
         IN  /\ serverPID' = e.pid
             /\ procs' = e.procs
             /\ api' = [api EXCEPT !.calls = @ + 1,
                                   !.last = [op |-> "startServer", probe |-> probe,
                                             spawn |-> spawnOutcome, result |-> FALSE,
                                             raised |-> e.raised]]
    /\ UNCHANGED <<rootVars, diskVars, run, invocations, logVars, fsCall, mgmtVars>>

\* POST /api/stop: stopServer()
ApiStop ==
    /\ api.calls < MaxCalls
    /\ LET e == StopServerEffect
       IN  /\ serverPID' = e.pid
           /\ procs' = e.procs
           /\ api' = [api EXCEPT !.calls = @ + 1,
                                 !.last = [NoApiCall EXCEPT !.op = "stopServer"]]
    /\ UNCHANGED <<rootVars, diskVars, run, invocations, logVars, fsCall, mgmtVars>>

\* GET /api/status: isProcessRunning()
ApiStatus ==
    /\ api.calls < MaxCalls
    /\ \E probe \in ProbeOutcomes(serverPID) :
         LET e == isProcessRunning(probe)
         IN  /\ serverPID' = e.pid
             /\ api' = [api EXCEPT !.calls = @ + 1,
                                   !.last = [NoApiCall EXCEPT !.op = "isProcessRunning",
                                                              !.probe = probe,
                                                              !.result = e.result]]
    /\ UNCHANGED <<rootVars, diskVars, procs, run, invocations, logVars, fsCall, mgmtVars>>

\* POST /api/restart: restartServer() up to its wait: `await stopServer()`
RestartStop ==
    /\ api.calls < MaxCalls
    /\ api.restart.pc \in {"idle", "returned"}
    /\ LET e == StopServerEffect
       IN  /\ serverPID' = e.pid
           /\ procs' = e.procs
           /\ api' = [api EXCEPT !.calls = @ + 1,
                                 !.restart = [IdleRestart EXCEPT !.pc = "wait",
                                                                 !.pid0 = serverPID,
                                                                 !.nprocs0 = Len(procs),
                                                                 !.ops = <<"stop">>]]
    /\ UNCHANGED <<rootVars, diskVars, run, invocations, logVars, fsCall, mgmtVars>>

\* restartServer: the 3000 ms timer fires
RestartWait ==
    /\ api.restart.pc = "wait"
    /\ api' = [api EXCEPT !.restart.pc = "start", !.restart.ops = Append(@, "wait")]
    /\ UNCHANGED <<rootVars, diskVars, procVars, run, invocations, logVars, fsCall, mgmtVars>>

\* restartServer: `await startServer()`, then it returns (or rejects)
RestartStart ==
    /\ api.restart.pc = "start"
    /\ \E probe \in ProbeOutcomes(serverPID), spawnOutcome \in SpawnOutcomes :
         LET e == StartServerEffect(probe, spawnOutcome)
         IN  /\ serverPID' = e.pid
             /\ procs' = e.procs
             /\ api' = [api EXCEPT !.restart.pc = "returned",
                                   !.restart.ops = Append(@, "start"),
                                   !.restart.spawned = e.spawned,
                                   !.restart.raised = e.raised]
    /\ UNCHANGED <<rootVars, diskVars, run, invocations, logVars, fsCall, mgmtVars>>

\* the order in which copyExistingData goes through the items: the world
\* directories, then the configuration files
ItemOrder == <<"worlds", "server.properties", "permissions.json", "whitelist.json">>

\* copyExistingData stopped by an I/O error of the copy of ItemOrder[k]:
\* the present items before it are in the target, the others are not
copyExistingDataUpTo(backup, newInstall, k) ==
    [newInstall EXCEPT !.data =
        [i \in UserPaths |->
            IF \E j \in 1..(k - 1) : ItemOrder[j] = i /\ backup.data[i] # "none"
            THEN backup.data[i] ELSE newInstall.data[i]]]

\* a call copyExistingData(backupDir, SERVER_DIRECTORY): it returns with
\* the present items copied, or the copy of a present item throws
DirectCopyExistingData ==
    /\ fsCall.op = "copyExistingData" /\ fsCall.outcome = "none"
    /\ \/ /\ serverDir' = copyExistingData(fsCall.snapshot, serverDir)
          /\ fsCall' = [fsCall EXCEPT !.outcome = "returned"]
       \/ \E k \in 1..Len(ItemOrder) :
             /\ fsCall.snapshot.data[ItemOrder[k]] # "none"
             /\ serverDir' = copyExistingDataUpTo(fsCall.snapshot, serverDir, k)
             /\ fsCall' = [fsCall EXCEPT !.outcome = "raised"]
    /\ UNCHANGED <<rootVars, lastVersionFile, tempDirs, backupDirs, procVars, run,
                   invocations, logVars, api, mgmtVars>>

(***************************************************************************)
(* Specifications.                                                         *)
(***************************************************************************)
\* what the disk can hold when the manager starts: nothing (the mkdir of
\* init() failed), the empty directory init() creates, or an installation
\* left by an earlier session together with its marker
InitialDisks ==
    { [marker |-> NoVersion, dir |-> NoDir],
      [marker |-> NoVersion, dir |-> EmptyDir],
      [marker |-> "1", dir |-> UserInstall("1")] }

\* nothing has been asked of the management surface yet
NoMapping == [done |-> FALSE, value |-> <<>>]

\* the management surface at rest, but for the variables of `busy`
InitMgmt(busy) ==
    /\ "props" \in busy
          \/ props = [file |-> [exists |-> FALSE, content |-> <<>>],
                      accepted |-> NoMapping, read |-> NoMapping]
    /\ "cfgCall" \in busy \/ cfgCall = [pc |-> "idle"]
    /\ "sched" \in busy \/ sched = [pc |-> "idle"]
    /\ "http" \in busy \/ http = <<>>
    /\ "registry" \in busy \/ registry = [entries |-> <<>>, uploads |-> <<>>]
    /\ "world" \in busy \/ world = [pc |-> "idle"]

InitCommon ==
    /\ \E c \in RootConfigs :
         /\ SERVER_DIRECTORY = c.server
         /\ TEMP_DIRECTORY = c.temp
         /\ BACKUP_DIRECTORY = c.backup
    /\ serverPID = NoPid
    /\ procs = <<>>
    /\ tempDirs = [v \in Versions |-> NoDir]
    /\ backupDirs = <<>>
    /\ run = [r \in Callers |-> IdleRun]
    /\ invocations = 0
    /\ rmLog = {}
    /\ chownLog = {}
    /\ api = NoApi

Init ==
    /\ InitCommon
    /\ InitMgmt({})
    /\ WEBHOOK_URL \in BOOLEAN
    /\ \E d \in InitialDisks : lastVersionFile = d.marker /\ serverDir = d.dir
    /\ fsCall = NoCall

\* runs of checkAndInstall one after the other, and process exits
Next ==
    \/ \E r \in SeqCallers : checkAndInstall(r)
    \/ \E p \in 1..Len(procs) : ProcessExit(p)

Spec == Init /\ [][Next]_vars

\* one direct call of removeDir or changeOwnership on a path of InputPaths
InitPath ==
    /\ InitCommon
    /\ InitMgmt({})
    /\ WEBHOOK_URL = FALSE
    /\ lastVersionFile = NoVersion
    /\ serverDir = EmptyDir
    /\ \E op \in {"removeDir", "changeOwnership"}, p \in InputPaths, e \in BOOLEAN :
         fsCall = [op |-> op, path |-> p, exists |-> e, outcome |-> "none"]

NextPath == DirectRemoveDir \/ DirectChangeOwnership

SpecPath == InitPath /\ [][NextPath]_vars

\* activations of checkAndInstall that overlap: requests to /api/update and
\* ticks of the scheduler arrive while an earlier activation is waiting
InitConcurrent ==
    /\ InitCommon
    /\ InitMgmt({})
    /\ SERVER_DIRECTORY = <<"/", "t", "s">>
    /\ WEBHOOK_URL = FALSE
    /\ lastVersionFile = "1"
    /\ serverDir = UserInstall("1")
    /\ fsCall = NoCall

NextConcurrent ==
    \/ \E r \in Callers : checkAndInstall(r)
    \/ \E r \in Callers : Tick(r)

SpecConcurrent == InitConcurrent /\ [][NextConcurrent]_vars

\* one call of copyExistingData, for every subset of the items present in
\* the snapshot and every subset present in the freshly renamed install
InitRestore ==
    /\ InitCommon
    /\ InitMgmt({})
    /\ WEBHOOK_URL = FALSE
    /\ lastVersionFile = NoVersion
    /\ \E inSnapshot \in SUBSET Items, inRelease \in SUBSET Items :
         /\ serverDir = [rel |-> "2", exe |-> TRUE,
                         data |-> [i \in UserPaths |->
                                      IF i \in inRelease \cup PackDirectories
                                      THEN "release" ELSE "none"]]
         /\ fsCall = [op |-> "copyExistingData", path |-> BackupPath(1),
                      exists |-> TRUE, outcome |-> "none", target |-> serverDir,
                      snapshot |-> [rel |-> "1", exe |-> TRUE,
                                    data |-> [i \in UserPaths |->
                                                 IF i \in inSnapshot \cup PackDirectories
                                                 THEN "user" ELSE "none"]]]

NextRestore == DirectCopyExistingData

\* the supervisor driven through the API, with the child processes ending
\* on their own
InitSupervisor ==
    /\ InitCommon
    /\ InitMgmt({})
    /\ WEBHOOK_URL = FALSE
    /\ \E d \in InitialDisks : lastVersionFile = d.marker /\ serverDir = d.dir
    /\ fsCall = NoCall

NextSupervisor ==
    \/ ApiStart
    \/ ApiStop
    \/ ApiStatus
    \/ RestartStop
    \/ RestartWait
    \/ RestartStart
    \/ \E p \in 1..Len(procs) : ProcessDies(p)
    \/ \E p \in 1..Len(procs) : ProcessExit(p)

SpecSupervisor == InitSupervisor /\ [][NextSupervisor]_vars

SpecRestore == InitRestore /\ [][NextRestore]_vars

(***************************************************************************)
(* Properties.                                                             *)
(***************************************************************************)
Done(r) == run[r].pc = "done"
Attempted(rec, op) == \E i \in 1..Len(rec.ops) : rec.ops[i] = op
Precedes(rec, a, b) ==
    \E i, j \in 1..Len(rec.ops) : i < j /\ rec.ops[i] = a /\ rec.ops[j] = b
Roots == {SERVER_DIRECTORY, TEMP_DIRECTORY, BACKUP_DIRECTORY}
ResolverFailures == {"transport_error", "bad_status", "bad_json"}
ResolverNoResult == {"no_link", "no_version_match"}

\* C1: when a run of checkAndInstall has returned, the marker names the
\* run's version if the run went through every step up to the process
\* start and returned success=true, and is what it was before the run
\* otherwise; in particular a run that returns success=false leaves the
\* marker unchanged.
C1_MarkerNamesLastCompletedInstall ==
    \A r \in Callers :
        Done(r) =>
            IF /\ run[r].result.kind = "value"
               /\ run[r].result.success
               /\ Attempted(run[r], "start")
            THEN lastVersionFile = run[r].latestVersion
            ELSE lastVersionFile = run[r].marker0

\* C2: a run that read a stored version v1, resolved a different version
\* v2, found the active install directory present and met no failing
\* external operation has gone through stop, backup, swap, restore,
\* persist, ownership change and restart and returned success=true.
C2_NewVersionRunsFullPipeline ==
    \A r \in Callers :
        ( /\ Done(r)
          /\ run[r].lastVersion \in Versions
          /\ run[r].latestVersion \in Versions
          /\ run[r].lastVersion # run[r].latestVersion
          /\ run[r].dir0 # NoDir
          /\ ~run[r].extFail )
        => /\ run[r].result.kind = "value"
           /\ run[r].result.success
           /\ \A op \in {"stop", "backup", "remove", "rename", "restore", "store",
                         "chown", "start"} : Attempted(run[r], op)

\* C3: the step of checkAndInstall that finds the resolved version equal
\* to the stored version it read ends the run with success=true and changes
\* neither the marker, the three directories, the tracked pid, the
\* processes nor the delete/chown logs, and no step (stop, backup, webhook)
\* has been attempted.
C3_UpToDateChangesNothing ==
    [][\A r \in Callers :
          ( /\ run[r].pc = "getLatestVersion"
            /\ run'[r].pc # "getLatestVersion"
            /\ run'[r].latestVersion \in Versions
            /\ run'[r].lastVersion = run'[r].latestVersion )
          => /\ run'[r].pc = "done"
             /\ run'[r].result.kind = "value"
             /\ run'[r].result.success
             /\ run'[r].ops = <<>>
             /\ UNCHANGED <<diskVars, procVars, logVars, mgmtVars>>]_vars

C3_Witness ==
    \E r \in Callers :
        /\ Done(r)
        /\ run[r].result = Value(TRUE, "Server is already up to date.", "")
        /\ run[r].latestVersion = lastVersionFile
        /\ serverDir # NoDir

\* C4: the step of checkAndInstall in which the resolver comes back with
\* no result (no link, or a link whose name does not match the version
\* pattern) ends the run with success=false and changes neither the marker,
\* the three directories nor the tracked pid.
C4_NoResultChangesNothing ==
    [][\A r \in Callers :
          ( /\ run[r].pc = "getLatestVersion"
            /\ run'[r].pc # "getLatestVersion"
            /\ run'[r].response \in ResolverNoResult )
          => /\ run'[r].pc = "done"
             /\ run'[r].result.kind = "value"
             /\ ~run'[r].result.success
             /\ run'[r].ops = <<>>
             /\ UNCHANGED <<diskVars, procVars, logVars, mgmtVars>>]_vars

C4_Witness ==
    \E r \in Callers :
        /\ Done(r)
        /\ run[r].response = "no_version_match"
        /\ ~run[r].result.success
        /\ lastVersionFile \in Versions
        /\ serverPID # NoPid

\* C5: every finished run of checkAndInstall has handed a {success,
\* message} value to its caller, and when the version request failed
\* (transport error, non-2xx status, unparsable body) that value has
\* success=false and the marker and the active directory are unchanged.
C5_ResolverFailureIsReturned ==
    \A r \in Callers :
        Done(r) =>
            /\ run[r].result.kind = "value"
            /\ run[r].response \in ResolverFailures =>
                   /\ ~run[r].result.success
                   /\ lastVersionFile = run[r].marker0
                   /\ serverDir = run[r].dir0

\* C6: a finished run in which a step from stopServer onward raised has
\* called startServer in its catch clause, has returned success=false with
\* a message that carries the raised error's message, and has not raised,
\* whether or not that startServer call raised; and every finished run that
\* reached stopServer returned either success=true or such a failure.
C6_FailureHandlerAlwaysReturns ==
    \A r \in Callers :
        /\ (Done(r) /\ run[r].error # "none") =>
               /\ run[r].result.kind = "value"
               /\ ~run[r].result.success
               /\ run[r].result.detail = run[r].error
               /\ run[r].handler \in {"start_returned", "start_raised"}
        /\ (Done(r) /\ Attempted(run[r], "stop")) =>
               /\ run[r].result.kind = "value"
               /\ run[r].result.success \/ run[r].error # "none"

C6_Witness ==
    \E r \in Callers :
        /\ Done(r)
        /\ run[r].error = "restore"
        /\ run[r].handler = "start_raised"

\* C7: a run that finds the temporary directory of the resolved version
\* present at the fetch step goes on to the swap step without creating,
\* downloading or extracting anything, and the directory its swap renames
\* into the active location is that directory.
C7_ExistingTempSkipsFetch ==
    /\ [](\A r \in Callers :
             Attempted(run[r], "skip_fetch") =>
                 /\ ~Attempted(run[r], "mkdir")
                 /\ ~Attempted(run[r], "download")
                 /\ ~Attempted(run[r], "extract"))
    /\ [][\A r \in Callers :
             ( /\ run[r].pc = "fetch"
               /\ run'[r].pc # "fetch"
               /\ tempDirs[run[r].latestVersion] # NoDir )
             => /\ run'[r].pc = "removeDir"
                /\ UNCHANGED tempDirs]_vars
    /\ [][\A r \in Callers :
             ( /\ run[r].pc = "rename"
               /\ run'[r].pc = "chown"
               /\ Attempted(run[r], "skip_fetch") )
             => /\ serverDir'.rel = tempDirs[run[r].latestVersion].rel
                /\ serverDir'.exe = tempDirs[run[r].latestVersion].exe
                /\ tempDirs'[run[r].latestVersion] = NoDir]_vars

C7_Witness ==
    \E r \in Callers :
        /\ run[r].pc = "chown"
        /\ Attempted(run[r], "skip_fetch")
        /\ Attempted(run[r], "rename")
        /\ serverDir.rel = run[r].latestVersion

\* C8: a call of removeDir on an existing path executes the recursive
\* delete when the path is a proper subdirectory of a managed root, and
\* raises without deleting when the path is a root or outside all roots.
C8_RemoveDirGuard ==
    (fsCall.op = "removeDir" /\ fsCall.exists /\ fsCall.outcome # "none") =>
        IF \E root \in Roots : ProperlyInside(fsCall.path, root)
        THEN RmExecuted(fsCall.outcome)
        ELSE fsCall.outcome = "rejected" /\ fsCall.path \notin rmLog

\* C9: every path on which a recursive delete or a recursive ownership
\* change has been executed lies inside the server, temp or backup root.
C9_DestructiveOpsInsideRoots ==
    \A p \in rmLog \cup chownLog : \E root \in Roots : Inside(p, root)

\* C10: a step of a run that removes or replaces an existing active
\* install directory is taken with a complete snapshot of exactly that
\* directory returned by the run's backup step, which came after the stop
\* request; and while a run whose backup step was entered has no snapshot
\* returned, the active install directory is as it was at the invocation.
C10_SnapshotBeforeRemoval ==
    /\ [][\A r \in Callers :
             ( /\ run'[r] # run[r]
               /\ serverDir # NoDir
               /\ serverDir' # serverDir )
             => /\ run[r].backupDir # 0
                /\ backupDirs[run[r].backupDir] =
                       [content |-> serverDir, state |-> "complete"]
                /\ Precedes(run[r], "stop", "backup")]_vars
    /\ [](\A r \in Callers :
             (Attempted(run[r], "backup") /\ run[r].backupDir = 0) =>
                 serverDir = run[r].dir0)

C10_Witness ==
    \E r \in Callers :
        /\ run[r].pc = "rename"
        /\ Attempted(run[r], "remove")
        /\ run[r].dir0 = UserInstall("1")
        /\ serverDir = NoDir
        /\ run[r].backupDir # 0

\* C11 (as stated): a run whose backup step created a snapshot directory
\* and then failed in the copy or the ownership change has that directory
\* removed once the error is in checkAndInstall's catch clause.
C11_SnapshotGoneOnBackupFailure ==
    \A r \in Callers :
        ( /\ run[r].pc \in {"catch", "done"}
          /\ run[r].bk # 0
          /\ run[r].backupDir = 0 )
        => backupDirs[run[r].bk].state = "removed"

\* C11: the backup step of a run that finds no active install directory
\* returns no snapshot and leaves the snapshot directories as they are;
\* and when the copy or the ownership change of a created snapshot failed,
\* either the snapshot directory is removed when the error reaches the
\* caller, or the recursive delete of the snapshot itself failed and it is
\* that delete's error that reaches the caller.
C11_BackupNoOpAndCleanup ==
    /\ [][\A r \in Callers :
             ( /\ run[r].pc = "backupServer"
               /\ run'[r].pc # "backupServer"
               /\ serverDir = NoDir )
             => /\ run'[r].pc = "fetch"
                /\ run'[r].backupDir = 0
                /\ run'[r].bk = 0
                /\ UNCHANGED <<diskVars, logVars, mgmtVars>>]_vars
    /\ [](\A r \in Callers :
             ( /\ run[r].pc \in {"catch", "done"}
               /\ run[r].bk # 0
               /\ run[r].backupDir = 0 )
             => \/ /\ backupDirs[run[r].bk].state = "removed"
                   /\ run[r].error \in {"copy", "chown"}
                \/ /\ backupDirs[run[r].bk].state = "leftover"
                   /\ run[r].error = "rm"
                   /\ BackupPath(run[r].bk) \in rmLog)

C11_Witness ==
    \E r \in Callers :
        /\ run[r].pc = "catch"
        /\ run[r].bk # 0
        /\ run[r].error = "chown"
        /\ backupDirs[run[r].bk].state = "removed"

\* C12: a call of copyExistingData that returns has put exactly the items
\* present in the snapshot into the target and left every other item of
\* the target as it was; and the call can only raise in the copy of an item
\* that is present, so the absence of items never makes it raise.
C12_RestoreCopiesPresentItems ==
    (fsCall.op = "copyExistingData" /\ fsCall.outcome # "none") =>
        /\ fsCall.outcome = "returned" =>
               /\ \A i \in Items :
                      serverDir.data[i] =
                          IF fsCall.snapshot.data[i] # "none"
                          THEN fsCall.snapshot.data[i]
                          ELSE fsCall.target.data[i]
               /\ \A i \in UserPaths \ Items :
                      serverDir.data[i] = fsCall.target.data[i]
               /\ serverDir.rel = fsCall.target.rel
               /\ serverDir.exe = fsCall.target.exe
        /\ fsCall.outcome = "raised" =>
               \E i \in Items : fsCall.snapshot.data[i] # "none"

C12_Witness ==
    /\ fsCall.op = "copyExistingData"
    /\ fsCall.outcome = "returned"
    /\ fsCall.snapshot.data["worlds"] = "user"
    /\ fsCall.snapshot.data["server.properties"] = "none"
    /\ fsCall.target.data["server.properties"] = "release"
    /\ serverDir.data["worlds"] = "user"
    /\ serverDir.data["server.properties"] = "release"

\* C13: after a run that installed a release and returned success=true,
\* every path of the pre-update installation that held data of the user
\* (world directories, content-pack directories, the named configuration
\* files) holds that data in the active installation, and everything else
\* in the active installation is what the extraction of the run's version
\* leaves.
C13_UpdateKeepsUserData ==
    \A r \in Callers :
        ( /\ Done(r)
          /\ run[r].result.kind = "value"
          /\ run[r].result.success
          /\ Attempted(run[r], "rename") )
        => /\ serverDir.rel = run[r].latestVersion
           /\ serverDir.exe = ExtractedRelease(run[r].latestVersion).exe
           /\ \A p \in UserPaths :
                  serverDir.data[p] =
                      IF run[r].dir0.data[p] # "none"
                      THEN run[r].dir0.data[p]
                      ELSE ExtractedRelease(run[r].latestVersion).data[p]

\* the step is a completed call of op made through the API
ApiCallOf(op) ==
    /\ api'.calls = api.calls + 1
    /\ api'.restart = api.restart
    /\ api'.last.op = op

\* C14: a call of startServer whose tracked pid answers the probe spawns
\* nothing and keeps the pid; otherwise a tracked pid is dropped and, with
\* the executable absent, the call returns without error and no pid is
\* tracked; with the executable present it reaches the spawn, and a child
\* that has a pid is the new process whose pid is tracked afterwards (a
\* spawn without a child pid leaves no pid tracked, and only a throwing
\* spawn makes the call raise).
C14_StartServerCases ==
    [][ApiCallOf("startServer") =>
          LET c == api'.last
              live == serverPID # NoPid /\ c.probe = "ok"
          IN  /\ live => /\ serverPID' = serverPID
                         /\ procs' = procs
                         /\ ~c.raised
              /\ (~live /\ ~ServerExeExists) =>
                     /\ serverPID' = NoPid
                     /\ procs' = procs
                     /\ ~c.raised
              /\ (~live /\ ServerExeExists /\ c.spawn = "pid") =>
                     /\ Len(procs') = Len(procs) + 1
                     /\ SubSeq(procs', 1, Len(procs)) = procs
                     /\ serverPID' = Len(procs')
                     /\ procs'[serverPID'].alive
                     /\ ~c.raised
              /\ (~live /\ ServerExeExists /\ c.spawn # "pid") =>
                     /\ serverPID' = NoPid
                     /\ procs' = procs
                     /\ c.raised <=> c.spawn = "throw"]_vars

C14_Witness ==
    /\ api.last.op = "startServer"
    /\ api.last.probe = "ESRCH"
    /\ api.last.spawn = "pid"
    /\ serverPID = Len(procs)
    /\ Alive(serverPID)
    /\ Len(procs) > 1

\* C15: a call of stopServer (from the API or as the first step of
\* restartServer) leaves no pid tracked; without a tracked pid it changes
\* nothing else; with one, the only process it touches is the tracked one,
\* which gets the termination signal if it is still there, and no process
\* has ended when the call returns.
C15_StopServerClearsPid ==
    [][( \/ ApiCallOf("stopServer")
         \/ api.restart.pc # "wait" /\ api'.restart.pc = "wait" )
       => /\ serverPID' = NoPid
          /\ Len(procs') = Len(procs)
          /\ \A p \in 1..Len(procs) :
                 /\ procs'[p].alive = procs[p].alive
                 /\ procs'[p] # procs[p] =>
                        /\ p = serverPID
                        /\ procs[p].alive
                        /\ procs'[p].signalled
                 /\ (p = serverPID /\ procs[p].alive) => procs'[p].signalled
          /\ serverPID = NoPid => procs' = procs]_vars

C15_Witness ==
    /\ api.last.op = "stopServer"
    /\ serverPID = NoPid
    /\ \E p \in 1..Len(procs) : procs[p].alive /\ procs[p].signalled

\* C16: a call of isProcessRunning returns true exactly when a pid is
\* tracked and the probe of it succeeds, and then keeps the pid; without a
\* tracked pid it probes nothing and returns false; when the probe reports
\* that the process is gone it clears the tracked pid and returns false;
\* on any other probe error it returns false.
C16_IsProcessRunningCases ==
    [][ApiCallOf("isProcessRunning") =>
          LET c == api'.last
          IN  /\ c.result <=> (serverPID # NoPid /\ c.probe = "ok")
              /\ c.result => serverPID' = serverPID
              /\ serverPID = NoPid => (c.probe = "none" /\ serverPID' = NoPid)
              /\ serverPID # NoPid => c.probe # "none"
              /\ c.probe = "ESRCH" => (serverPID' = NoPid /\ ~c.result)
              /\ c.probe = "EPERM" => ~c.result
              /\ procs' = procs]_vars

C16_Witness ==
    /\ api.last.op = "isProcessRunning"
    /\ api.last.probe = "ESRCH"
    /\ ~api.last.result
    /\ serverPID = NoPid
    /\ \E p \in 1..Len(procs) : ~procs[p].alive /\ procs[p] # Exited

\* C17: restartServer takes its steps in the order stopServer, wait,
\* startServer; when its startServer spawned a child with a pid, the pid
\* tracked at its return is that child's, a process that did not exist when
\* the restart began, and so not the pid tracked before; in every case the
\* pid tracked at its return is none or that of a process started after
\* the restart began.
C17_RestartOrderAndNewPid ==
    /\ [](/\ \E n \in 0..3 : api.restart.ops = SubSeq(<<"stop", "wait", "start">>, 1, n)
          /\ api.restart.pc = "returned" =>
                 api.restart.ops = <<"stop", "wait", "start">>)
    /\ [][(api.restart.pc = "start" /\ api'.restart.pc = "returned") =>
             /\ api'.restart.spawned =>
                    /\ serverPID' = Len(procs')
                    /\ Len(procs') = Len(procs) + 1
                    /\ procs'[serverPID'].alive
                    /\ serverPID' # api.restart.pid0
             /\ serverPID' = NoPid \/ serverPID' > api.restart.nprocs0]_vars

C17_Witness ==
    /\ api.restart.pc = "returned"
    /\ api.restart.spawned
    /\ api.restart.pid0 # NoPid
    /\ Alive(api.restart.pid0)
    /\ serverPID = Len(procs)
    /\ serverPID # api.restart.pid0

\* the activation is between its stop step and its return
InPipeline(r) ==
    run[r].pc \notin {"idle", "getLatestVersion", "webhook_pre", "stopServer", "done"}

\* C18: no two activations of checkAndInstall are between their stop step
\* and their return at the same time.
C18_SingleFlight ==
    \A r1, r2 \in Callers :
        r1 # r2 => ~(InPipeline(r1) /\ InPipeline(r2))

\* C19: no two activations of checkAndInstall started by ticks of the
\* scheduler are under way at the same time.
C19_TicksSerialized ==
    \A r1, r2 \in Callers :
        ( /\ r1 # r2
          /\ run[r1].source = "tick"
          /\ run[r2].source = "tick" )
        => \/ run[r1].pc = "done"
           \/ run[r2].pc = "done"

\* how many times a step was attempted
Count(rec, op) == Cardinality({i \in 1..Len(rec.ops) : rec.ops[i] = op})

\* C20: in every activation each notification is attempted at most once
\* and only with a webhook configured; with one configured the pre-update
\* notification comes before the stop request and the post-update
\* notification after the marker is stored and before the restart; and the
\* step that sends a notification, delivered or not, takes the run to the
\* stop request (to the restart) without an error and without changing the
\* disk, the processes or the logs.
C20_WebhookBestEffort ==
    /\ [](\A r \in Callers :
             /\ Count(run[r], "webhook_pre") <= 1
             /\ Count(run[r], "webhook_post") <= 1
             /\ Attempted(run[r], "webhook_pre") => WEBHOOK_URL
             /\ Attempted(run[r], "webhook_post") =>
                    (WEBHOOK_URL /\ Precedes(run[r], "store", "webhook_post"))
             /\ (WEBHOOK_URL /\ Attempted(run[r], "stop")) =>
                    Precedes(run[r], "webhook_pre", "stop")
             /\ (WEBHOOK_URL /\ Attempted(run[r], "start")) =>
                    Precedes(run[r], "webhook_post", "start"))
    /\ [][\A r \in Callers :
             /\ (run[r].pc = "webhook_pre" /\ run'[r] # run[r]) =>
                    /\ run'[r].pc = "stopServer"
                    /\ run'[r].error = "none"
                    /\ run'[r].extFail = run[r].extFail
                    /\ UNCHANGED <<diskVars, procVars, logVars, mgmtVars>>
             /\ (run[r].pc = "webhook_post" /\ run'[r] # run[r]) =>
                    /\ run'[r].pc = "startServer"
                    /\ run'[r].error = "none"
                    /\ run'[r].extFail = run[r].extFail
                    /\ UNCHANGED <<diskVars, procVars, logVars, mgmtVars>>]_vars

C20_Witness ==
    \E r \in Callers :
        /\ Done(r)
        /\ WEBHOOK_URL
        /\ run[r].result.success
        /\ Count(run[r], "webhook_pre") = 1
        /\ Count(run[r], "webhook_post") = 1
        /\ Attempted(run[r], "backup")

(***************************************************************************)
(* server.properties.  Text is a sequence of one-character strings, so     *)
(* that formatting and parsing are the operations the code performs.       *)
(***************************************************************************)
MaxFileLen == 4
MaxKeyLen == 1
MaxValueLen == 2
MaxProps == 2

PropChars == {"a", "b", "=", "#", " ", "\n"}

\* the texts of at most n characters
TextsUpTo(n) == UNION { [1..k -> PropChars] : k \in 0..n }

\* String.prototype.trim: the white space at both ends removed
RECURSIVE trim(_)
trim(s) ==
    IF s # <<>> /\ Head(s) \in {" ", "\n"} THEN trim(Tail(s))
    ELSE IF s # <<>> /\ s[Len(s)] \in {" ", "\n"} THEN trim(SubSeq(s, 1, Len(s) - 1))
    ELSE s

\* String.prototype.split on a one-character separator
RECURSIVE split(_, _)
split(s, sep) ==
    IF \E i \in 1..Len(s) : s[i] = sep
    THEN LET i == CHOOSE i \in 1..Len(s) : s[i] = sep /\ \A j \in 1..(i - 1) : s[j] # sep
         IN  <<SubSeq(s, 1, i - 1)>> \o split(SubSeq(s, i + 1, Len(s)), sep)
    ELSE <<s>>

\* JavaScript values of a property: strings, numbers, booleans and null
JsString(text) == [type |-> "string", text |-> text]
JsValues ==
    { JsString(t) : t \in TextsUpTo(MaxValueLen) }
        \cup { [type |-> "number", n |-> n] : n \in {0, 10} }
        \cup { [type |-> "boolean", b |-> b] : b \in BOOLEAN }
        \cup { [type |-> "null"] }

\* String(value), also what a template literal makes of a value
RECURSIVE ToText(_)
ToText(value) ==
    CASE value.type = "string" -> value.text
      [] value.type = "number" ->
            IF value.n < 10
            THEN <<(<<"0", "1", "2", "3", "4", "5", "6", "7", "8", "9">>)[value.n + 1]>>
            ELSE ToText([type |-> "number", n |-> value.n \div 10])
                     \o ToText([type |-> "number", n |-> value.n % 10])
      [] value.type = "boolean" ->
            IF value.b THEN <<"t", "r", "u", "e">> ELSE <<"f", "a", "l", "s", "e">>
      [] value.type = "null" -> <<"n", "u", "l", "l">>

\* an object is the sequence of its entries in insertion order, keys distinct
Objects ==
    { o \in UNION { [1..k -> [key : TextsUpTo(MaxKeyLen), value : JsValues]] : k \in 0..MaxProps } :
        \A i, j \in 1..Len(o) : o[i].key = o[j].key => i = j }

\* the mapping an object stands for: a function of its keys, <<>> for {}
SetProp(properties, key, value) ==
    [k \in DOMAIN properties \cup {key} |-> IF k = key THEN value ELSE properties[k]]

RECURSIVE AsMapping(_)
AsMapping(o) ==
    IF o = <<>> THEN <<>>
    ELSE SetProp(AsMapping(SubSeq(o, 1, Len(o) - 1)), o[Len(o)].key, o[Len(o)].value)

\* the middleware of POST /api/properties: 400 for a key with a line break,
\* other values than strings, numbers and booleans become strings
sanitizeServerProperties(body) ==
    IF \E i \in 1..Len(body) : \E j \in 1..Len(body[i].key) : body[i].key[j] = "\n"
    THEN [status |-> 400, body |-> <<>>]
    ELSE [status |-> 200,
          body |-> [i \in 1..Len(body) |->
                       [key |-> body[i].key,
                        value |-> IF body[i].value.type \in {"string", "number", "boolean"}
                                  THEN body[i].value
                                  ELSE JsString(ToText(body[i].value))]]]

\* the content writeServerProperties writes: a line key=value per entry
RECURSIVE writeServerProperties(_)
writeServerProperties(propertiesToWrite) ==
    IF propertiesToWrite = <<>> THEN <<>>
    ELSE LET e == Head(propertiesToWrite)
         IN  e.key \o <<"=">> \o ToText(e.value) \o <<"\n">>
                 \o writeServerProperties(Tail(propertiesToWrite))

\* mutant: lines starting with '#' are parsed like the others
ParseLineKeepsComments(properties, line) ==
    LET trimmedLine == trim(line)
        parts == split(trimmedLine, "=")
        key == trim(parts[1])
        value == IF Len(parts) >= 2 THEN trim(parts[2]) ELSE <<>>
    IN  IF trimmedLine # <<>> /\ key # <<>>
        THEN SetProp(properties, key, JsString(value))
        ELSE properties

\* the body of the forEach of readServerProperties
ParseLine(properties, line) ==
    LET trimmedLine == trim(line)
    IN  IF trimmedLine # <<>> /\ Head(trimmedLine) # "#"
        THEN LET parts == split(trimmedLine, "=")
                 key == trim(parts[1])
                 \* `value || ''`: no second part gives the empty string
                 value == IF Len(parts) >= 2 THEN trim(parts[2]) ELSE <<>>
             IN  IF key # <<>> THEN SetProp(properties, key, JsString(value))
                 ELSE properties
        ELSE properties

\* readServerProperties on server.properties, which may not exist
readServerProperties(file) ==
    LET RECURSIVE ParseLines(_)
        ParseLines(lines) ==
            IF lines = <<>> THEN <<>>
            ELSE ParseLine(ParseLines(SubSeq(lines, 1, Len(lines) - 1)), lines[Len(lines)])
    IN  IF ~file.exists THEN <<>> ELSE ParseLines(split(file.content, "\n"))

\* POST /api/properties with a body the middleware accepts
PostProperties ==
    /\ ~props.accepted.done
    /\ \E body \in Objects :
         LET req == sanitizeServerProperties(body)
         IN  /\ req.status = 200
             /\ props' = [file |-> [exists |-> TRUE, content |-> writeServerProperties(req.body)],
                          accepted |-> [done |-> TRUE, value |-> AsMapping(req.body)],
                          read |-> NoMapping]
    /\ UNCHANGED <<rootVars, diskVars, procVars, run, invocations, logVars, fsCall, api,
                   cfgCall, sched, http, registry, world>>

\* GET /api/properties: readServerProperties()
GetProperties ==
    /\ ~props.read.done
    /\ props' = [props EXCEPT
                    !.read = [done |-> TRUE, value |-> readServerProperties(props.file)]]
    /\ UNCHANGED <<rootVars, diskVars, procVars, run, invocations, logVars, fsCall, api,
                   cfgCall, sched, http, registry, world>>

\* an installation at rest, for the operations of the management surface
InitAtRest ==
    /\ InitCommon
    /\ SERVER_DIRECTORY = "/s"
    /\ WEBHOOK_URL = FALSE
    /\ lastVersionFile = NoVersion
    /\ serverDir = EmptyDir
    /\ fsCall = NoCall

\* ... on which no management call has been made yet
InitIdle == InitAtRest /\ InitMgmt({})

\* a write of server.properties through the endpoint, then a read
SpecProps == InitIdle /\ [][PostProperties \/ GetProperties]_vars

\* a read of a server.properties of any content, or of none
InitRead ==
    /\ InitAtRest
    /\ InitMgmt({"props"})
    /\ \E f \in { [exists |-> TRUE, content |-> t] : t \in TextsUpTo(MaxFileLen) }
                   \cup { [exists |-> FALSE, content |-> <<>>] } :
         props = [file |-> f, accepted |-> NoMapping, read |-> NoMapping]

SpecRead == InitRead /\ [][GetProperties]_vars

\* C21: for every mapping m the properties endpoint accepts, writing m and
\* then reading server.properties returns a mapping equal to m
C21_WriteThenReadRoundTrip ==
    (props.accepted.done /\ props.read.done) => props.read.value = props.accepted.value

\* the lines of the file that are neither blank nor comments, and their keys
C22_Lines == split(props.file.content, "\n")
C22_IsData(l) == trim(l) # <<>> /\ Head(trim(l)) # "#"
C22_KeyOf(l) == trim(split(trim(l), "=")[1])
C22_IsKeyValue(l) == C22_IsData(l) /\ C22_KeyOf(l) # <<>> /\ Len(split(trim(l), "=")) = 2

MaxArgs == 3

\* a JSON number, and what parseInt returns for a token that is no number
Num(n) == [nan |-> FALSE, n |-> n]

\* the keys of the configuration modelled here; the other keys of the code
\* (serverPortIPv6, tempDirectory, backupDirectory, worldName, logLevel) are
\* treated like serverPortIPv4, serverDirectory and serverName
DefaultConfig ==
    [serverName |-> "Default Minecraft Server", serverPortIPv4 |-> Num(19132),
     serverDirectory |-> "./server_data/default_server",
     autoStart |-> FALSE, autoUpdateEnabled |-> TRUE, autoUpdateIntervalMinutes |-> 60]

\* the tokens of process.argv.slice(2) that start with "--"; the others are
\* "true", "false", "7" and "rel"
OptionTokens ==
    {"--serverName", "--serverPortIPv4", "--serverDirectory", "--autoStart",
     "--no-autoStart", "--autoUpdateEnabled", "--no-autoUpdateEnabled"}

\* config.json: absent, not JSON, or an object giving some of the keys
ConfigFiles ==
    { [kind |-> "absent", value |-> <<>>], [kind |-> "invalid", value |-> <<>>],
      [kind |-> "object", value |-> <<>>],
      [kind |-> "object", value |-> [k \in {"autoStart"} |-> TRUE]],
      [kind |-> "object",
       value |-> [k \in {"autoUpdateEnabled", "autoUpdateIntervalMinutes"} |->
                     IF k = "autoUpdateEnabled" THEN FALSE ELSE 0]],
      [kind |-> "object",
       value |-> [k \in DOMAIN DefaultConfig |->
                     CASE k = "serverName" -> "File Server Name"
                       [] k = "serverPortIPv4" -> Num(1)
                       [] k = "serverDirectory" -> "/srv/mc"
                       [] k = "autoStart" -> FALSE
                       [] k = "autoUpdateEnabled" -> TRUE
                       [] k = "autoUpdateIntervalMinutes" -> 5]] }

\* parseInt(value, 10) on the tokens above
parseInt(value) == IF value = "7" THEN Num(7) ELSE [nan |-> TRUE, n |-> 0]

\* resolvePath: path.resolve(__dirnameESM, p) unless p is absolute, with the
\* application in /app
resolvePath(p) ==
    CASE p = "./server_data/default_server" -> "/app/server_data/default_server"
      [] p = "rel" -> "/app/rel"
      [] OTHER -> p

\* mutant: config.json wins over the command line
ApplyArgsNoOverride(args, i, config) == config

\* the loop over the arguments, from args[i] on
RECURSIVE ApplyArgs(_, _, _)
ApplyArgs(args, i, config) ==
    IF i > Len(args) THEN config
    ELSE LET arg == args[i]
             value == IF i < Len(args) THEN args[i + 1] ELSE "undefined"
             hasValue == i < Len(args) /\ value \notin OptionTokens
             byCase ==
                 CASE arg = "--serverName" /\ hasValue -> [config EXCEPT !.serverName = value]
                   [] arg = "--serverPortIPv4" /\ hasValue ->
                          [config EXCEPT !.serverPortIPv4 = parseInt(value)]
                   [] arg = "--serverDirectory" /\ hasValue ->
                          [config EXCEPT !.serverDirectory = value]
                   [] arg = "--autoStart" ->
                          [config EXCEPT !.autoStart = IF hasValue THEN value = "true" ELSE TRUE]
                   [] arg = "--autoUpdateEnabled" ->
                          [config EXCEPT
                             !.autoUpdateEnabled = IF hasValue THEN value = "true" ELSE TRUE]
                   [] OTHER -> config
             \* `default: valueConsumed = false`
             valueConsumed ==
                 hasValue /\ arg \in OptionTokens \ {"--no-autoStart", "--no-autoUpdateEnabled"}
             afterFlags ==
                 IF valueConsumed THEN byCase
                 ELSE IF arg = "--no-autoStart" THEN [byCase EXCEPT !.autoStart = FALSE]
                 ELSE IF arg = "--no-autoUpdateEnabled"
                      THEN [byCase EXCEPT !.autoUpdateEnabled = FALSE]
                 ELSE byCase
         IN  ApplyArgs(args, IF valueConsumed THEN i + 2 ELSE i + 1, afterFlags)

\* { ...effectiveConfig, ...configFromFile }, the defaults when the file is
\* absent or cannot be parsed
MergedConfig(file) ==
    [k \in DOMAIN DefaultConfig |->
        IF file.kind = "object" /\ k \in DOMAIN file.value THEN file.value[k]
        ELSE DefaultConfig[k]]

\* readGlobalConfig: the configuration it returns and what it does to config.json
readGlobalConfig(file, args, writeOk) ==
    LET merged == ApplyArgs(args, 1, MergedConfig(file))
    IN  [config |-> [merged EXCEPT !.serverDirectory = resolvePath(@)],
         wrote |-> IF file.kind = "object" THEN "none"
                   ELSE IF writeOk THEN "defaults" ELSE "failed",
         file |-> IF file.kind # "object" /\ writeOk
                  THEN [kind |-> "object", value |-> DefaultConfig]
                  ELSE file]

\* a call of readGlobalConfig
ReadGlobalConfig ==
    /\ cfgCall.pc = "called"
    /\ \E writeOk \in BOOLEAN :
         LET r == readGlobalConfig(cfgCall.file0, cfgCall.argv, writeOk)
         IN  cfgCall' = [cfgCall EXCEPT !.pc = "returned", !.config = r.config,
                                        !.wrote = r.wrote, !.file = r.file]
    /\ UNCHANGED <<rootVars, diskVars, procVars, run, invocations, logVars, fsCall, api,
                   props, sched, http, registry, world>>

\* one call, for every config.json and every command line above
InitConfig ==
    /\ InitAtRest
    /\ InitMgmt({"cfgCall"})
    /\ \E f \in ConfigFiles, a \in UNION { [1..n -> OptionTokens \cup {"true", "false", "7", "rel"}] : n \in 0..MaxArgs } :
         cfgCall = [pc |-> "called", file0 |-> f, argv |-> a, file |-> f,
                    config |-> DefaultConfig, wrote |-> "none"]

SpecConfig == InitConfig /\ [][ReadGlobalConfig]_vars

\* what config.json gives for a key, the built-in default otherwise
C23_Base(k) ==
    IF cfgCall.file0.kind = "object" /\ k \in DOMAIN cfgCall.file0.value
    THEN cfgCall.file0.value[k] ELSE DefaultConfig[k]
\* the last place of the command line where one of `options` stands (0: none),
\* counting an option that takes a value only where a value follows it
C23_Last(options, needsValue) ==
    LET at == { i \in 1..Len(cfgCall.argv) :
                  /\ cfgCall.argv[i] \in options
                  /\ needsValue =>
                       (i < Len(cfgCall.argv) /\ cfgCall.argv[i + 1] \notin OptionTokens) }
    IN  IF at = {} THEN 0 ELSE CHOOSE i \in at : \A j \in at : j <= i
C23_Flag(k, flag, noFlag) ==
    LET i == C23_Last({flag, noFlag}, FALSE)
        next == IF i < Len(cfgCall.argv) THEN cfgCall.argv[i + 1] ELSE "undefined"
    IN  CASE i = 0 -> cfgCall.config[k] = C23_Base(k)
          [] i > 0 /\ cfgCall.argv[i] = noFlag -> cfgCall.config[k] = FALSE
          [] i > 0 /\ cfgCall.argv[i] = flag /\ next = "true" -> cfgCall.config[k] = TRUE
          [] i > 0 /\ cfgCall.argv[i] = flag /\ next = "false" -> cfgCall.config[k] = FALSE
          [] i > 0 /\ cfgCall.argv[i] = flag /\ next \in OptionTokens \cup {"undefined"} ->
                 cfgCall.config[k] = TRUE
          [] OTHER -> TRUE

\* C23: for every configuration key the value readGlobalConfig returns is
\* the command-line override when one is given (a port as a number, a
\* directory resolved against the application's directory), else the value
\* of config.json when it gives the key, else the built-in default; the
\* flags accept --flag, --flag true, --flag false and --no-flag
C23_ConfigPrecedence ==
    cfgCall.pc = "returned" =>
        /\ LET i == C23_Last({"--serverName"}, TRUE)
           IN  cfgCall.config.serverName
                   = IF i > 0 THEN cfgCall.argv[i + 1] ELSE C23_Base("serverName")
        /\ LET i == C23_Last({"--serverPortIPv4"}, TRUE)
           IN  IF i = 0 THEN cfgCall.config.serverPortIPv4 = C23_Base("serverPortIPv4")
               ELSE cfgCall.argv[i + 1] = "7" => cfgCall.config.serverPortIPv4 = Num(7)
        /\ LET i == C23_Last({"--serverDirectory"}, TRUE)
           IN  cfgCall.config.serverDirectory
                   = resolvePath(IF i > 0 THEN cfgCall.argv[i + 1]
                                 ELSE C23_Base("serverDirectory"))
        /\ C23_Flag("autoStart", "--autoStart", "--no-autoStart")
        /\ C23_Flag("autoUpdateEnabled", "--autoUpdateEnabled", "--no-autoUpdateEnabled")
        /\ cfgCall.config.autoUpdateIntervalMinutes = C23_Base("autoUpdateIntervalMinutes")

\* a command line overrides a key that config.json gives, and leaves another
\* to config.json
C23_Witness ==
    /\ cfgCall.pc = "returned"
    /\ cfgCall.file0.kind = "object"
    /\ DOMAIN cfgCall.file0.value = DOMAIN DefaultConfig
    /\ cfgCall.argv = <<"--serverName", "rel", "--no-autoUpdateEnabled">>
    /\ cfgCall.config.serverName = "rel"
    /\ ~cfgCall.config.autoUpdateEnabled
    /\ cfgCall.config.serverPortIPv4 = Num(1)

\* C24: without config.json (and without command-line arguments)
\* readGlobalConfig returns the default configuration, with serverName
\* "Default Minecraft Server" and autoUpdateEnabled false, and writes a
\* default configuration file
C24_DefaultsWhenFileMissing ==
    (cfgCall.pc = "returned" /\ cfgCall.file0.kind = "absent" /\ cfgCall.argv = <<>>) =>
        /\ cfgCall.config.serverName = "Default Minecraft Server"
        /\ cfgCall.config.autoUpdateEnabled = FALSE
        /\ cfgCall.wrote # "none"

(***************************************************************************)
(* The manager's startup and the auto-update scheduler.  A call of         *)
(* startAutoUpdateScheduler is made by the startup (call 0) and by every   *)
(* POST /api/config; the calls of different requests can overlap at        *)
(* `await checkAndInstall()`.                                              *)
(***************************************************************************)
MaxTicks == 2
SchedCalls == {0, 1, 2}

InitScheduler ==
    /\ InitAtRest
    /\ InitMgmt({"sched"})
    /\ \E as \in BOOLEAN, en \in BOOLEAN, iv \in {0, 60} :
         LET file == [autoStart |-> as, autoUpdateEnabled |-> en,
                      autoUpdateIntervalMinutes |-> iv]
         IN  sched = [boot |-> "off", file |-> file, bootOps |-> <<>>,
                      autoUpdateIntervalId |-> 0, timers |-> {}, handles |-> 0,
                      call |-> [c \in SchedCalls |-> [pc |-> "idle", config |-> file]],
                      checks |-> 0, ticks |-> 0]

SchedUnchanged ==
    UNCHANGED <<rootVars, diskVars, procVars, run, invocations, logVars, fsCall, api,
                props, cfgCall, http, registry, world>>

\* the startup up to its call of startAutoUpdateScheduler
Boot ==
    /\ sched.boot = "off"
    /\ sched' = [sched EXCEPT !.boot = "scheduler",
                              !.bootOps = <<"readGlobalConfig", "init">>,
                              !.call[0].pc = "start"]
    /\ SchedUnchanged

\* POST /api/config up to its call of startAutoUpdateScheduler: the settings
\* are written to config.json
PostConfig(c, enabled, minutes) ==
    /\ c # 0
    /\ sched.boot = "listening"
    /\ sched.call[c].pc = "idle"
    /\ sched' = [sched EXCEPT !.file.autoUpdateEnabled = enabled,
                              !.file.autoUpdateIntervalMinutes = minutes,
                              !.call[c].pc = "start"]
    /\ SchedUnchanged

\* startAutoUpdateScheduler up to `await checkAndInstall()`, or to its
\* return when auto-update is off
SchedStart(c) ==
    /\ sched.call[c].pc = "start"
    /\ LET currentConfig == sched.file
           on == currentConfig.autoUpdateEnabled /\ currentConfig.autoUpdateIntervalMinutes > 0
       IN  sched' = [sched EXCEPT
                        \* clearInterval(autoUpdateIntervalId) when there is one
                        !.timers = @ \ {sched.autoUpdateIntervalId},
                        !.autoUpdateIntervalId = 0,
                        !.call[c] = [pc |-> IF on THEN "check" ELSE "returned",
                                     config |-> currentConfig],
                        !.bootOps = IF c = 0 THEN Append(@, "startAutoUpdateScheduler") ELSE @]
    /\ SchedUnchanged

\* the initial check ends: checkAndInstall returns a result ("installed"
\* after it has started the server) or rejects; setInterval installs the
\* timer unless it rejected
SchedCheck(c) ==
    /\ sched.call[c].pc = "check"
    /\ \E o \in {"up_to_date", "installed", "failed", "rejected"} :
         sched' = [sched EXCEPT
                      !.checks = @ + 1,
                      !.bootOps = IF c = 0 /\ o = "installed" THEN Append(@, "startServer") ELSE @,
                      !.call[c].pc = IF o = "rejected" THEN "rejected" ELSE "returned",
                      !.handles = IF o = "rejected" THEN @ ELSE @ + 1,
                      !.autoUpdateIntervalId = IF o = "rejected" THEN @ ELSE sched.handles + 1,
                      !.timers = IF o = "rejected" THEN @ ELSE @ \cup {sched.handles + 1}]
    /\ SchedUnchanged

\* the end of the startup: app.listen, or process.exit(1) when the scheduler
\* call rejected
Listen ==
    /\ sched.boot = "scheduler"
    /\ sched.call[0].pc \in {"returned", "rejected"}
    /\ sched' = IF sched.call[0].pc = "returned"
                THEN [sched EXCEPT !.boot = "listening", !.bootOps = Append(@, "listen")]
                ELSE [sched EXCEPT !.boot = "exited", !.timers = {}]
    /\ SchedUnchanged

\* a timer fires: its callback runs checkAndInstall
TimerTick(t) ==
    /\ t \in sched.timers
    /\ sched.ticks < MaxTicks
    /\ sched' = [sched EXCEPT !.ticks = @ + 1]
    /\ SchedUnchanged

SpecScheduler ==
    InitScheduler /\ [][
    \/ Boot
    \/ Listen
    \/ \E c \in SchedCalls : SchedStart(c) \/ SchedCheck(c)
    \/ \E c \in SchedCalls, en \in BOOLEAN, iv \in {0, 60} : PostConfig(c, en, iv)
    \/ \E t \in 1..Cardinality(SchedCalls) : TimerTick(t) ]_vars

\* C25: when the startup is over, the manager has invoked startServer during
\* it if autoStart is true, and has not if autoStart is false
C25_AutoStartStartsServer ==
    sched.boot = "listening" =>
        (sched.call[0].config.autoStart
            <=> \E i \in 1..Len(sched.bootOps) : sched.bootOps[i] = "startServer")

\* C30: when a call of startAutoUpdateScheduler returns, a periodic timer is
\* installed exactly when the configuration it read has autoUpdateEnabled
\* true and autoUpdateIntervalMinutes > 0; every earlier timer is cancelled,
\* so the installed timer is the only one; and an update check has run
\* before the installed timer first fires
C30_TimerIffEnabled ==
    [][\A c \in SchedCalls :
          (sched.call[c].pc # "returned" /\ sched'.call[c].pc = "returned") =>
              LET on == /\ sched'.call[c].config.autoUpdateEnabled
                        /\ sched'.call[c].config.autoUpdateIntervalMinutes > 0
              IN  /\ on <=> sched'.autoUpdateIntervalId # 0
                  /\ sched'.timers = IF on THEN {sched'.autoUpdateIntervalId} ELSE {}
                  /\ on => sched'.checks >= 1]_vars

(***************************************************************************)
(* The routes GET /api/status and POST /api/start over a backend whose     *)
(* operation resolves or rejects, as the route tests mock it.              *)
(***************************************************************************)
MaxRequests == 3

\* mutant: no catch block, a rejection leaves the request without response
RouteResponseNoCatch(route, backend) ==
    IF backend = "rejects" THEN [status |-> 0, body |-> "none"]
    ELSE [status |-> 200,
          body |-> IF route = "POST /api/start" THEN "success: true"
                   ELSE IF backend = "true" THEN "status: running" ELSE "status: stopped"]

\* the handler of a route: what it answers for the outcome of the backend
\* operation it awaits (status 0: no answer)
RouteResponse(route, backend) ==
    IF backend = "rejects"
    THEN [status |-> 500,
          body |-> IF route = "POST /api/start" THEN "error: Failed to start server"
                   ELSE "error: Failed to get server status"]
    ELSE [status |-> 200,
          body |-> IF route = "POST /api/start" THEN "success: true"
                   ELSE IF backend = "true" THEN "status: running" ELSE "status: stopped"]

\* a request to `route`; `outcomes` are the ways its backend operation can end
Request(route, outcomes) ==
    /\ Len(http) < MaxRequests
    /\ \E backend \in outcomes :
         http' = Append(http, [route |-> route, backend |-> backend,
                               response |-> RouteResponse(route, backend)])
    /\ UNCHANGED <<rootVars, diskVars, procVars, run, invocations, logVars, fsCall, api,
                   props, cfgCall, sched, registry, world>>

SpecRoutes ==
    InitIdle /\ [][
    \* isProcessRunning resolves to a boolean, startServer to nothing
    \/ Request("GET /api/status", {"true", "false", "rejects"})
    \/ Request("POST /api/start", {"resolves", "rejects"}) ]_vars

\* C26: GET /api/status answers 200 with status 'running' or 'stopped' as
\* the backend reports, POST /api/start answers 200 with success: true, and
\* each answers 500 with an error body when its backend operation rejects;
\* no request is left without an answer
C26_RoutesAnswer ==
    \A i \in 1..Len(http) :
        LET e == http[i]
        IN  /\ e.response.status \in {200, 500}
            /\ e.backend = "rejects" <=> e.response.status = 500
            /\ (e.route = "GET /api/status" /\ e.backend = "true")
                   => e.response.body = "status: running"
            /\ (e.route = "GET /api/status" /\ e.backend = "false")
                   => e.response.body = "status: stopped"
            /\ (e.route = "POST /api/start" /\ e.backend = "resolves")
                   => e.response.body = "success: true"
            /\ (e.route = "GET /api/status" /\ e.backend = "rejects")
                   => e.response.body = "error: Failed to get server status"
            /\ (e.route = "POST /api/start" /\ e.backend = "rejects")
                   => e.response.body = "error: Failed to start server"

\* a status request answered 'running', then a start whose backend rejected
C26_Witness ==
    /\ Len(http) >= 2
    /\ http[1].route = "GET /api/status" /\ http[1].response.body = "status: running"
    /\ http[2].route = "POST /api/start" /\ http[2].backend = "rejects"
    /\ http[2].response.status = 500

(***************************************************************************)
(* The pack installer's registry update.  uploadPack is not part of the    *)
(* sources at hand (the route tests mock it); it is modelled from the      *)
(* specification's steps 5 and 6.                                          *)
(***************************************************************************)
MaxUploads == 3

\* mutant: the new entry is appended without removing the prior one
RegistryInsertKeepsPrior(entries, uuid, version) ==
    Append(entries, [pack_id |-> uuid, version |-> version])

\* step 5: remove any existing entry with the same uuid, append the new one
RegistryInsert(entries, uuid, version) ==
    Append(SelectSeq(entries, LAMBDA e : e.pack_id # uuid),
           [pack_id |-> uuid, version |-> version])

\* an upload of one package into the world; when the registry file cannot be
\* written the upload is rolled back and the registry stays as it was
UploadPack(uuid, version, category) ==
    /\ Len(registry.uploads) < MaxUploads
    /\ \E writeOk \in BOOLEAN :
         registry' =
             [entries |-> IF writeOk
                          THEN [registry.entries EXCEPT
                                   ![category] = RegistryInsert(@, uuid, version)]
                          ELSE registry.entries,
              uploads |-> Append(registry.uploads,
                                 [uuid |-> uuid, version |-> version,
                                  category |-> category, applied |-> writeOk])]
    /\ UNCHANGED <<rootVars, diskVars, procVars, run, invocations, logVars, fsCall, api,
                   props, cfgCall, sched, http, world>>

\* a world without packs
InitRegistry ==
    /\ InitAtRest
    /\ InitMgmt({"registry"})
    /\ registry = [entries |-> [c \in {"behavior", "resource"} |-> <<>>], uploads |-> <<>>]

SpecRegistry ==
    InitRegistry /\ [][\E uuid \in {"U", "V"}, version \in {1, 2},
                          category \in {"behavior", "resource"} :
                            UploadPack(uuid, version, category)]_vars

\* C27: after any sequence of uploads the registry of each category holds at
\* most one entry per pack_id, and a package uploaded more than once has
\* exactly one entry, with the version of its last upload
C27_OneEntryPerPack ==
    \A c \in DOMAIN registry.entries :
        LET entries == registry.entries[c]
            applied(u) == { i \in 1..Len(registry.uploads) :
                              /\ registry.uploads[i].category = c
                              /\ registry.uploads[i].uuid = u
                              /\ registry.uploads[i].applied }
        IN  /\ \A i, j \in 1..Len(entries) : entries[i].pack_id = entries[j].pack_id => i = j
            /\ \A u \in {"U", "V"} :
                 IF applied(u) = {} THEN \A i \in 1..Len(entries) : entries[i].pack_id # u
                 ELSE LET last == CHOOSE i \in applied(u) : \A j \in applied(u) : j <= i
                      IN  \E i \in 1..Len(entries) :
                              /\ entries[i].pack_id = u
                              /\ entries[i].version = registry.uploads[last].version

\* U uploaded twice into the behavior registry, with versions 1 and then 2
C27_Witness ==
    /\ Len(registry.uploads) >= 2
    /\ \A i \in 1..2 : /\ registry.uploads[i].uuid = "U"
                       /\ registry.uploads[i].category = "behavior"
                       /\ registry.uploads[i].applied
                       /\ registry.uploads[i].version = i
    /\ \E i \in 1..Len(registry.entries["behavior"]) :
         registry.entries["behavior"][i] = [pack_id |-> "U", version |-> 2]

(***************************************************************************)
(* activateWorld.                                                          *)
(***************************************************************************)
MaxLines == 2

\* the key 'level-name'
LEVEL_NAME == <<"l", "e", "v", "e", "l", "-", "n", "a", "m", "e">>

\* the object readServerProperties returns, as its entries in the order in
\* which the keys first appear in the file
PropertiesObject(file) ==
    LET lines == IF file.exists THEN split(file.content, "\n") ELSE <<>>
        RECURSIVE KeyOrder(_, _)
        KeyOrder(i, acc) ==
            IF i > Len(lines) THEN acc
            ELSE LET d == DOMAIN ParseLine(<<>>, lines[i])
                 IN  KeyOrder(i + 1, IF d = {} \/ \E j \in 1..Len(acc) : acc[j] \in d
                                     THEN acc ELSE Append(acc, CHOOSE k \in d : TRUE))
        order == KeyOrder(1, <<>>)
    IN  [i \in 1..Len(order) |->
            [key |-> order[i], value |-> readServerProperties(file)[order[i]]]]

\* mutant: only level-name is written back
WithLevelNameOnly(properties, worldName) ==
    <<[key |-> LEVEL_NAME, value |-> JsString(worldName)]>>

\* properties['level-name'] = worldName
WithLevelName(properties, worldName) ==
    IF \E i \in 1..Len(properties) : properties[i].key = LEVEL_NAME
    THEN [i \in 1..Len(properties) |->
             IF properties[i].key = LEVEL_NAME
             THEN [key |-> LEVEL_NAME, value |-> JsString(worldName)]
             ELSE properties[i]]
    ELSE Append(properties, [key |-> LEVEL_NAME, value |-> JsString(worldName)])

\* activateWorld up to the wait of restartServer, or to its return; reading
\* and writing server.properties can fail, a failed write leaving the file
\* as it was or empty
ActivateWorld ==
    /\ world.pc = "called"
    /\ \E readOk \in BOOLEAN, written \in {"ok", "refused", "truncated"} :
         LET properties == PropertiesObject(props.file)
             Returns(result, ops, error) ==
                 world' = [world EXCEPT !.pc = "returned", !.result = result,
                                        !.ops = ops, !.error = error]
         IN  IF ~world.exists
             THEN Returns(FALSE, <<>>, FALSE) /\ UNCHANGED <<props, procVars>>
             ELSE IF props.file.exists /\ ~readOk
             THEN Returns(FALSE, <<"read">>, TRUE) /\ UNCHANGED <<props, procVars>>
             ELSE IF \E i \in 1..Len(properties) :
                        properties[i] = [key |-> LEVEL_NAME, value |-> JsString(world.name)]
             THEN Returns(TRUE, <<"read">>, FALSE) /\ UNCHANGED <<props, procVars>>
             ELSE IF written # "ok"
             THEN /\ Returns(FALSE, <<"read", "write">>, TRUE)
                  /\ props' = IF written = "refused" THEN props
                              ELSE [props EXCEPT !.file = [exists |-> TRUE, content |-> <<>>]]
                  /\ UNCHANGED procVars
             ELSE /\ props' = [props EXCEPT
                                  !.file = [exists |-> TRUE,
                                            content |-> writeServerProperties(
                                                WithLevelName(properties, world.name))]]
                  /\ serverPID' = StopServerEffect.pid
                  /\ procs' = StopServerEffect.procs
                  /\ world' = [world EXCEPT !.pc = "wait", !.ops = <<"read", "write", "stop">>]
    /\ UNCHANGED <<rootVars, diskVars, run, invocations, logVars, fsCall, api,
                   cfgCall, sched, http, registry>>

\* restartServer after its wait: startServer, then activateWorld returns
ActivateRestart ==
    /\ world.pc = "wait"
    /\ \E probe \in ProbeOutcomes(serverPID), spawnOutcome \in SpawnOutcomes :
         LET e == StartServerEffect(probe, spawnOutcome)
         IN  /\ serverPID' = e.pid
             /\ procs' = e.procs
             /\ world' = [world EXCEPT !.pc = "returned", !.result = ~e.raised,
                                       !.ops = Append(@, "start"), !.error = e.raised]
    /\ UNCHANGED <<rootVars, diskVars, run, invocations, logVars, fsCall, api,
                   props, cfgCall, sched, http, registry>>

\* a call of activateWorld for a world that exists or not, with a
\* server.properties of up to MaxLines lines
InitWorld ==
    /\ InitCommon
    /\ InitMgmt({"props", "world"})
    /\ SERVER_DIRECTORY = <<"/", "s">>
    /\ WEBHOOK_URL = FALSE
    /\ lastVersionFile = "1"
    /\ serverDir = UserInstall("1")
    /\ fsCall = NoCall
    /\ \E lines \in UNION { [1..n -> { <<"#", "a">>, <<"a", "=", "b">>, <<" ", "b", "=">>,
                                         LEVEL_NAME \o <<"=", "a">>,
                                         LEVEL_NAME \o <<" ", "=", "b", " ">> }]
                               : n \in 0..MaxLines },
          exists \in BOOLEAN :
         LET RECURSIVE Joined(_)
             Joined(i) == IF i > Len(lines) THEN <<>> ELSE lines[i] \o <<"\n">> \o Joined(i + 1)
         IN  props = [file |-> [exists |-> exists, content |-> IF exists THEN Joined(1) ELSE <<>>],
                      accepted |-> NoMapping, read |-> NoMapping]
    /\ \E name \in {<<"a">>, <<"b">>}, exists \in BOOLEAN :
         world = [pc |-> "called", name |-> name, exists |-> exists, result |-> FALSE,
                  ops |-> <<>>, error |-> FALSE, file0 |-> props.file]

\* the call next to requests that start and stop the server
SpecWorld == InitWorld /\ [][ActivateWorld \/ ActivateRestart \/ ApiStart \/ ApiStop]_vars

C31_SnapshotsAreKept ==
    [][\A i \in 1..Len(backupDirs) :
          backupDirs[i].state = "complete"
          => /\ i <= Len(backupDirs')
             /\ backupDirs'[i] = backupDirs[i]]_vars

\* a completed snapshot of the first run is still there after a second run
\* that made its own backup attempt and removed what it had copied
C31_Witness ==
    /\ Len(backupDirs) = 2
    /\ backupDirs[1] = [content |-> UserInstall("1"), state |-> "complete"]
    /\ backupDirs[2].state = "removed"
    /\ invocations = 2
    /\ Done(1)
    /\ ~run[1].result.success

\* C32: whenever the swap step renames the temp directory of the target
\* version into the active install location, that directory holds the
\* completely extracted release of that version.
C32_SwapMovesCompleteRelease ==
    [][\A r \in Callers :
          ( /\ run[r].pc = "rename"
            /\ tempDirs[run[r].latestVersion] # NoDir
            /\ tempDirs'[run[r].latestVersion] = NoDir )
          => tempDirs[run[r].latestVersion] = ExtractedRelease(run[r].latestVersion)]_vars

\* C33: while a run of checkAndInstall is past the start of its backup step
\* and has not finished its swap and restore steps, no process spawned by
\* the supervisor is alive.
C33_NoServerDuringSwap ==
    \A r \in Callers :
        run[r].pc \in {"bk_chown", "bk_cleanup", "fetch", "download", "extract",
                       "removeDir", "rename"}
        => \A p \in 1..Len(procs) : ~Alive(p)

(***************************************************************************)
(* The supervised process                                                  *)
(***************************************************************************)

\* C34: at most one process spawned by the supervisor is alive at any time.
C34_AtMostOneServerAlive ==
    Cardinality({p \in 1..Len(procs) : Alive(p)}) <= 1

(***************************************************************************)
(* Termination of checkAndInstall                                          *)
(***************************************************************************)

\* runs one after the other in which every awaited operation of a run
\* settles: a run that can take a step eventually takes one
SpecLive ==
    /\ Init
    /\ [][Next]_vars
    /\ \A r \in SeqCallers : WF_vars(run[r].pc # "idle" /\ checkAndInstall(r))

\* C35: every invocation of checkAndInstall (the n-th, for every n)
\* eventually returns a {success, message} result.
C35_EveryRunReturnsAResult ==
    \A r \in SeqCallers : \A n \in 1..MaxRuns :
        (invocations = n /\ run[r].pc = "getLatestVersion")
            ~> (invocations = n /\ run[r].pc = "done" /\ run[r].result.kind = "value")

\* C36: a run that found an installation in the active install directory
\* and returned success=false leaves an installation there: the previous
\* one as it was, or the complete release of the resolved version.
C36_FailedRunKeepsAnInstallation ==
    \A r \in Callers :
        ( /\ Done(r)
          /\ run[r].dir0 # NoDir
          /\ run[r].dir0.exe
          /\ run[r].result.kind = "value"
          /\ ~run[r].result.success )
        => \/ serverDir = run[r].dir0
           \/ /\ serverDir # NoDir
              /\ serverDir.exe
              /\ serverDir.rel = run[r].latestVersion

\* C37: when a run returns success=true from the update path for the
\* resolved version v, the persisted marker equals v.
C37_SuccessStoresMarker ==
    \A r \in Callers :
        ( /\ Done(r)
          /\ run[r].result =
                 Value(TRUE, "Server updated to version ", run[r].latestVersion) )
        => lastVersionFile = run[r].latestVersion

\* C38: at the moment a run returns success=true from the update path, the
\* supervisor tracks the pid of a process started from the newly installed
\* release.
C38_SuccessTracksNewServer ==
    [][\A r \in Callers :
          ( /\ run[r].pc # "done"
            /\ run'[r].pc = "done"
            /\ run'[r].result =
                   Value(TRUE, "Server updated to version ", run'[r].latestVersion) )
          => /\ serverPID' \in 1..Len(procs')
             /\ procs'[serverPID'].alive
             /\ procs'[serverPID'].rel = run'[r].latestVersion]_vars

(***************************************************************************)
(* The auto-update timer under overlapping scheduler calls                 *)
(***************************************************************************)

\* C39: at most one auto-update timer is active at any time.
C39_AtMostOneTimer ==
    Cardinality(sched.timers) <= 1

(***************************************************************************)
(* Late exit events                                                        *)
(***************************************************************************)

\* C40: the exit (or error) event of a child clears the tracked pid exactly
\* when the tracked pid is that child's: the late exit event of a process
\* stopped earlier leaves the tracked pid of a process started afterwards
\* as it is.
C40_LateExitKeepsNewerPid ==
    [][\A p \in 1..Len(procs) :
          ( procs[p] # Exited /\ procs'[p] = Exited )
          => /\ serverPID = p => serverPID' = NoPid
             /\ serverPID # p => serverPID' = serverPID]_vars

\* the exit event of the first process, stopped earlier, has been delivered
\* while the second process is the tracked one
C40_Witness ==
    /\ Len(procs) = 2
    /\ procs[1] = Exited
    /\ procs[2].alive
    /\ serverPID = 2
    /\ api.calls >= 3

==============================================================================
